---- MODULE Spec2Model ----
(***************************************************************************)
(* A model of the warg registry client's checkpoint synchronizer           *)
(* (Client::update_checkpoint, crates/client/src/lib.rs) together with the  *)
(* registry storage it commits to and the registry API it talks to.        *)
(*                                                                         *)
(* One call of update_checkpoint is a sequence of steps, one per await of  *)
(* the function; the value of pc names the await the call is suspended at. *)
(* The code between two awaits runs without interruption and is part of    *)
(* the action that resumes the call.                                       *)
(***************************************************************************)
EXTENDS Integers, Sequences, FiniteSets, TLC

\* ------------------------------------------------------------------ bounds

\* Calls of update_checkpoint started in one behaviour.
MaxPasses == 2

\* Fetch requests one call may send (the loop runs while the server says more).
MaxFetch == 2

\* ------------------------------------------------------------- value domains

\* Option::None, for every optional value of the program.
None == "none"

\* namespace_domain: Option<String>; None is the default registry.
Domain == {None, "d1"}

\* The package names the client is asked about.
PackageNames == {"a", "b"}

\* A log id the client never asks about (LogId of some other package).
UnknownLog == "x"

\* LogId::operator_log().
OperatorLog == "op"

\* The global log of each registry: the owning log of the record at each
\* registry index (registry_index = position - 1).
RegistryLog(d) ==
    IF d = None THEN <<"op", "a", "b", "a">>
                ELSE <<"op", "a", "op", "b">>

\* The key id the operator init record of a registry binds.
RegistryKey(d) == IF d = None THEN "k0" ELSE "k1"

KeyIds == {"k0", "k1"}

\* Checkpoint { log_length, log_root, map_root }: the checkpoints the servers
\* present.  "A" and "B" are the Merkle roots of two histories; a server that
\* presents both under one log_length equivocates.
Checkpoints ==
    {[log_length |-> 3, log_root |-> "A", map_root |-> "A"],
     [log_length |-> 4, log_root |-> "A", map_root |-> "A"],
     [log_length |-> 4, log_root |-> "B", map_root |-> "A"],
     [log_length |-> 4, log_root |-> "A", map_root |-> "B"]}

\* SerdeEnvelope<TimestampedCheckpoint>: the checkpoint, the key id of the
\* envelope and the key that really produced the signature.  Every checkpoint
\* comes signed by the key of either registry; one comes with a signature
\* that is not of the key its key id names.
TsCheckpoints ==
    {[checkpoint |-> c, key_id |-> k, signature |-> k] :
        c \in Checkpoints, k \in KeyIds}
    \cup {[checkpoint |-> [log_length |-> 3, log_root |-> "A", map_root |-> "A"],
           key_id |-> k, signature |-> CHOOSE j \in KeyIds : j # k] :
           k \in KeyIds}

\* ------------------------------------------------------- records and logs

\* The registry indices (0-based) of the records of log l in registry d that
\* lie below log_length n.
IndicesOf(d, l, n) ==
    {i \in 0..(n - 1) : i < Len(RegistryLog(d)) /\ RegistryLog(d)[i + 1] = l}

\* The position (1-based) of the record at registry index i within its own log.
SeqOf(d, i) ==
    Cardinality(IndicesOf(d, RegistryLog(d)[i + 1], i + 1))

\* A published record: PublishedProtoEnvelope { envelope, registry_index } with
\* its fetch_token.  The envelope is identified by the registry that signed
\* it, its log and its position in that log; prev is the record before it.
Record(d, i) ==
    [reg |-> d, log |-> RegistryLog(d)[i + 1], seq |-> SeqOf(d, i),
     registry_index |-> i, fetch_token |-> i]

\* All records of log l in registry d, in log order.
RECURSIVE SeqFromSet(_)
SeqFromSet(S) ==
    IF S = {} THEN <<>>
    ELSE LET m == CHOOSE x \in S : \A y \in S : x <= y
         IN <<m>> \o SeqFromSet(S \ {m})

LogRecords(d, l) ==
    LET idx == SeqFromSet(IndicesOf(d, l, Len(RegistryLog(d))))
    IN [k \in 1..Len(idx) |-> Record(d, idx[k])]

\* Every contiguous run of a sequence (the empty run included).
Slices(s) ==
    {SubSeq(s, i, j) : i \in 1..(Len(s) + 1), j \in 0..Len(s)}

\* ------------------------------------------------------------ Option<T>

\* Option<T> is a sequence of at most one element.
Nil == <<>>
Some(x) == <<x>>
IsSome(o) == o # <<>>
Unwrap(o) == o[1]

\* --------------------------------------------------------- validator state

\* The validator state of a log: the head (the id of the latest validated
\* record).  A record id is the registry that signed the record, its log and
\* its position in the log.
EmptyState == [head |-> Nil]

RecordId(rec) == [reg |-> rec.reg, log |-> rec.log, seq |-> rec.seq]

\* The prev pointer of a record: absent for the first record of a log.
Prev(rec) ==
    IF rec.seq = 1 THEN Nil
    ELSE Some([reg |-> rec.reg, log |-> rec.log, seq |-> rec.seq - 1])

\* validate(envelope): prev must equal the current head, or be absent iff the
\* current head is absent.
ValidateOk(state, rec) == Prev(rec) = state.head

\* The state after a successful validate.
Validated(state, rec) == [head |-> Some(RecordId(rec))]

\* operator state.public_key(key_id): the key the validated init record binds.
PublicKey(state, key_id) ==
    IF IsSome(state.head) /\ RegistryKey(Unwrap(state.head).reg) = key_id
    THEN Some(key_id)
    ELSE Nil

\* TimestampedCheckpoint::verify(key, bytes, signature).
VerifySignature(key, ts) == ts.signature = key

\* ------------------------------------------------- OperatorInfo, PackageInfo

\* OperatorInfo::default().
DefaultOperatorInfo ==
    [state |-> EmptyState, head_registry_index |-> Nil, head_fetch_token |-> Nil]

\* PackageInfo::new(name).
NewPackageInfo(n) ==
    [name |-> n, state |-> EmptyState, head_registry_index |-> Nil,
     head_fetch_token |-> Nil, checkpoint |-> Nil]

\* ------------------------------------------------------------------ storage

\* RegistryStorage, one scope per namespace-domain: the operator info, the
\* package infos and the checkpoint of the scope.
EmptyScope ==
    [operator |-> Nil,
     packages |-> [n \in PackageNames |-> Nil],
     checkpoint |-> Nil]

\* load_operator(namespace_domain).
LoadOperator(st, d) == st[d].operator

\* store_operator(operator, namespace_domain).
StoreOperator(st, op, d) == [st EXCEPT ![d].operator = Some(op)]

\* load_package(name, namespace_domain).
LoadPackage(st, n, d) == st[d].packages[n]

\* store_package(package, namespace_domain).
StorePackage(st, p, d) == [st EXCEPT ![d].packages[p.name] = Some(p)]

\* load_checkpoint(): the call carries no namespace-domain and reads the
\* checkpoint of the default scope.
LoadCheckpoint(st) == st[None].checkpoint

\* store_checkpoint(ts_checkpoint, namespace_domain).
StoreCheckpoint(st, ts, d) == [st EXCEPT ![d].checkpoint = Some(ts)]

\* ------------------------------------------- update_checkpoint, pure parts

\* A faulty step A that drops no package.
FilteredNever(p, checkpoint) == FALSE

\* Step A: a package already at the requested checkpoint is not updated.
Filtered(p, checkpoint) == p.checkpoint = Some(checkpoint)

\* A faulty gate that lets a record at the head index through.
GateLoose(head_registry_index, registry_index) ==
    \/ head_registry_index = Nil
    \/ registry_index >= Unwrap(head_registry_index)

\* The monotone-index gate: a record is applied when the log has no head
\* index yet or the record's registry_index is greater than it.
Gate(head_registry_index, registry_index) ==
    \/ head_registry_index = Nil
    \/ registry_index > Unwrap(head_registry_index)

\* The loop over the records of one log of a fetch response, for the operator
\* info and for a package info alike: validate every record that passes the
\* gate and move the head index and fetch token to it; stop at the first
\* record that fails validation.
RECURSIVE ApplyRecords(_, _)
ApplyRecords(info, recs) ==
    IF recs = <<>> THEN [ok |-> TRUE, info |-> info, calls |-> 0]
    ELSE LET r == Head(recs) IN
         IF Gate(info.head_registry_index, r.registry_index)
         THEN IF ValidateOk(info.state, r)
              THEN LET rest ==
                       ApplyRecords(
                           [info EXCEPT
                               !.state = Validated(info.state, r),
                               !.head_registry_index = Some(r.registry_index),
                               !.head_fetch_token = Some(r.fetch_token)],
                           Tail(recs))
                   IN [rest EXCEPT !.calls = @ + 1]
              ELSE [ok |-> FALSE, info |-> info, calls |-> 1]
         ELSE ApplyRecords(info, Tail(recs))

\* A faulty request that echoes no fetch token.
FetchRequestNoTokens(ts, op, known) ==
    [log_length |-> ts.checkpoint.log_length,
     operator |-> Nil,
     packages |-> [n \in DOMAIN known |-> Nil]]

\* FetchLogsRequest { log_length, operator, limit: None, packages }.
FetchRequest(ts, op, known) ==
    [log_length |-> ts.checkpoint.log_length,
     operator |-> op.head_fetch_token,
     packages |-> known]

\* A faulty package loop that skips the entries of logs it does not know.
PackageErrorsKnownOnly(pkgs, infos, resp) ==
    {<<"PackageValidationFailed", n>> :
            n \in {m \in (DOMAIN resp.packages) \cap pkgs :
                     ~ApplyRecords(infos[m], resp.packages[m]).ok}}
    \cup {<<"PackageLogEmpty", n>> :
            n \in {m \in (DOMAIN resp.packages) \cap pkgs :
                     /\ ApplyRecords(infos[m], resp.packages[m]).ok
                     /\ ApplyRecords(infos[m], resp.packages[m]).info.state.head = Nil}}

\* The errors the package loop of a fetch response can end with.  The loop
\* runs over a HashMap, so any failing entry may be the one met first.
PackageErrors(pkgs, infos, resp) ==
    {<<"Other", l>> : l \in (DOMAIN resp.packages) \ pkgs}
    \cup {<<"PackageValidationFailed", n>> :
            n \in {m \in (DOMAIN resp.packages) \cap pkgs :
                     ~ApplyRecords(infos[m], resp.packages[m]).ok}}
    \cup {<<"PackageLogEmpty", n>> :
            n \in {m \in (DOMAIN resp.packages) \cap pkgs :
                     /\ ApplyRecords(infos[m], resp.packages[m]).ok
                     /\ ApplyRecords(infos[m], resp.packages[m]).info.state.head = Nil}}

\* The package infos after the package loop of a response without error.
AppliedPackages(pkgs, infos, resp) ==
    [n \in DOMAIN infos |->
        IF n \in pkgs /\ n \in DOMAIN resp.packages
        THEN ApplyRecords(infos[n], resp.packages[n]).info
        ELSE infos[n]]

\* A leaf of the inclusion proof with its registry index.
Leaf(l, info) ==
    [log_id |-> l, record_id |-> Unwrap(info.state.head),
     index |-> Unwrap(info.head_registry_index)]

\* A faulty list of leaves that holds the operator head only.
LeavesOperatorOnly(op, pkgs, infos) == {Leaf(OperatorLog, op)}

\* leafs / leaf_indices: the operator head, then every package head.
Leaves(op, pkgs, infos) ==
    {Leaf(OperatorLog, op)} \cup {Leaf(n, infos[n]) : n \in pkgs}

\* A faulty end of the fetch loop that does not test the package heads.
AfterFetchNoPackages(ts, op, pkgs, infos) ==
    IF PublicKey(op.state, ts.key_id) = Nil
    THEN {<<"InvalidCheckpointKeyId", ts.key_id>>}
    ELSE IF ~VerifySignature(Unwrap(PublicKey(op.state, ts.key_id)), ts)
    THEN {<<"InvalidCheckpointSignature">>}
    ELSE IF op.head_registry_index = Nil
    THEN {<<"NoOperatorRecords">>}
    ELSE {<<"prove">>}

\* A faulty end of the fetch loop that does not verify the checkpoint.
AfterFetchUnverified(ts, op, pkgs, infos) ==
    IF op.head_registry_index = Nil
    THEN {<<"NoOperatorRecords">>}
    ELSE IF \E n \in pkgs : infos[n].head_registry_index = Nil
    THEN {<<"PackageLogEmpty", n>> :
            n \in {m \in pkgs : infos[m].head_registry_index = Nil}}
    ELSE {<<"prove">>}

\* From the end of the fetch loop to the inclusion request: the checkpoint
\* signature, then the heads.  "prove" stands for going on.  The package loop
\* runs over a HashMap, so any package without a head index may be met first.
AfterFetch(ts, op, pkgs, infos) ==
    IF PublicKey(op.state, ts.key_id) = Nil
    THEN {<<"InvalidCheckpointKeyId", ts.key_id>>}
    ELSE IF ~VerifySignature(Unwrap(PublicKey(op.state, ts.key_id)), ts)
    THEN {<<"InvalidCheckpointSignature">>}
    ELSE IF op.head_registry_index = Nil
    THEN {<<"NoOperatorRecords">>}
    ELSE IF \E n \in pkgs : infos[n].head_registry_index = Nil
    THEN {<<"PackageLogEmpty", n>> :
            n \in {m \in pkgs : infos[m].head_registry_index = Nil}}
    ELSE {<<"prove">>}

\* What the call does with the fetch response resp: the operator loop, the
\* package loop, then the next request ("more") or the end of the loop and
\* the checks up to the inclusion request.  Every error the call can return
\* for the response is in the set.
FetchOutcomes(ts, op, pkgs, infos, resp) ==
    IF ~ApplyRecords(op, resp.operator).ok
    THEN {<<"OperatorValidationFailed">>}
    ELSE IF PackageErrors(pkgs, infos, resp) # {}
    THEN PackageErrors(pkgs, infos, resp)
    ELSE IF resp.more
    THEN {<<"more">>}
    ELSE AfterFetch(ts, ApplyRecords(op, resp.operator).info, pkgs,
                    AppliedPackages(pkgs, infos, resp))

\* A faulty comparison that takes a shorter log for a longer one: it asks for
\* a consistency proof instead of reporting the rewind.
CompareCheckpointsNoRewind(prev, ts) ==
    IF prev = Nil THEN <<"commit">>
    ELSE LET f == Unwrap(prev).checkpoint
             t == ts.checkpoint
         IN IF f.log_length # t.log_length
            THEN <<"consistency">>
            ELSE IF f.log_root # t.log_root \/ f.map_root # t.map_root
            THEN <<"CheckpointChangedLogRootOrMapRoot", f.log_length>>
            ELSE <<"commit">>

\* The comparison of the previously stored checkpoint with the new one.
\* "consistency" stands for requesting a consistency proof, "commit" for
\* going on to the commit.
CompareCheckpoints(prev, ts) ==
    IF prev = Nil THEN <<"commit">>
    ELSE LET f == Unwrap(prev).checkpoint
             t == ts.checkpoint
         IN IF f.log_length > t.log_length
            THEN <<"CheckpointLogLengthRewind", f.log_length, t.log_length>>
            ELSE IF f.log_length < t.log_length
            THEN <<"consistency">>
            ELSE IF f.log_root # t.log_root \/ f.map_root # t.map_root
            THEN <<"CheckpointChangedLogRootOrMapRoot", f.log_length>>
            ELSE <<"commit">>

\* A faulty commit loop that stores the package without setting its checkpoint.
SetCheckpointSkipped(p, checkpoint) == p

\* package.checkpoint = Some(checkpoint.clone()).
SetCheckpoint(p, checkpoint) == [p EXCEPT !.checkpoint = Some(checkpoint)]

\* A faulty commit that stores the checkpoint after the first package.
NextStoreEarly(rest) == "store_checkpoint"

\* The commit after a store_package: the loop over packages.values_mut()
\* goes on while a package is left, then store_checkpoint is called.
NextStore(rest) == IF rest = {} THEN "store_checkpoint" ELSE "store_package"

\* A translation that knows no package.
TranslateLogNotFoundNever(id, pkgs) == <<"Api">>

\* ClientError::translate_log_not_found for the fetch request: LogNotFound(id)
\* of a package of the pass becomes PackageDoesNotExist.
TranslateLogNotFound(id, pkgs) ==
    IF id \in pkgs THEN <<"PackageDoesNotExist", id>> ELSE <<"Api">>

\* ------------------------------------------------------- the registry API

\* The last record of log l below log_length n in registry d.
HeadIndex(d, l, n) ==
    CHOOSE i \in IndicesOf(d, l, n) : \A j \in IndicesOf(d, l, n) : j <= i

\* prove_inclusion verifies when every leaf is the head of its log under the
\* checkpoint: the map root commits to the head of every log at log_length.
InclusionVerifies(d, checkpoint, leaves) ==
    \A leaf \in leaves :
        /\ IndicesOf(d, leaf.log_id, checkpoint.log_length) # {}
        /\ leaf.index = HeadIndex(d, leaf.log_id, checkpoint.log_length)
        /\ leaf.record_id = RecordId(Record(d, leaf.index))

\* prove_log_consistency verifies when both roots are roots of one log.
ConsistencyVerifies(f, t) == f.log_root = t.log_root

\* FetchLogsResponse { operator, packages, more }: the responses of a server
\* of registry d.  The server may send any run of each log, entries for logs
\* nobody asked about, and no entry for a log that was asked about.
LogIds == PackageNames \cup {UnknownLog}

\* An entry of the packages map of a response: absent, or a run of the log.
Entries(d, l) == {Nil} \cup {Some(r) : r \in Slices(LogRecords(d, l))}

ResponseTable ==
    [d \in Domain |->
        {[operator |-> o,
          packages |-> [l \in {k \in LogIds : e[k] # Nil} |-> Unwrap(e[l])],
          more |-> m] :
            o \in Slices(LogRecords(d, OperatorLog)),
            e \in {[a |-> ea, b |-> eb, x |-> ex] :
                      ea \in Entries(d, "a"), eb \in Entries(d, "b"),
                      ex \in Entries(d, UnknownLog)},
            m \in BOOLEAN}]

Responses(d) == ResponseTable[d]

\* -------------------------------------------------------------------- state

VARIABLES
    storage,     \* the registry storage, one scope per namespace-domain
    pc,          \* the await the running call is suspended at, or "idle"
    result,      \* what the last call returned
    dom,         \* namespace_domain of the call
    cstar,       \* ts_checkpoint of the call
    names,       \* the names of the PackageInfo collection of the call
    ps,          \* the caller's PackageInfo collection (mutated in place)
    again,       \* the call repeats the previous one on the same collection
    operator,    \* the local operator info
    packages,    \* the keys of the local map of packages to update
    last_known,  \* the fetch token last sent for each package
    request,     \* the fetch request in flight
    from,        \* the checkpoint load_checkpoint returned
    tostore,     \* the packages the commit has still to store
    rounds,      \* fetch requests sent by the call
    passes,      \* calls started
    pre,         \* history: the storage when the call started
    snap,        \* history: the storage before the first killed attempt
    retry,       \* history: the call repeats a killed call
    writes,      \* history: the stores the call has issued, in order
    work,        \* history: what the call has done: "read" and "write" of
                 \* storage, "network" requests, "validate" of a record,
                 \* "compare" of the stored checkpoint with the new one
    proven       \* history: the leaves of the verified inclusion proof

\* The namespace resolver (get_package_namespace_domain).
VARIABLES
    env,         \* what the resolver reads: the default operator state, the
                 \* working tree and the client-wide namespace map
    rcalls,      \* calls of the resolver made
    rresults     \* history: what each call returned, in order

\* The publish pipeline (publish, publish_with_info, wait_for_publish).
VARIABLES
    pending,     \* the pending publish in the registry storage
    content,     \* the digests the content storage holds
    ppc,         \* the await the running call is suspended at, or "idle"
    entry,       \* the method called: publish, publish_with_info or
                 \* wait_for_publish
    presult,     \* what the last call returned
    pinfo,       \* info: the PublishInfo of the call
    ppackage,    \* package: the PackageInfo of the call (its head)
    pres,        \* res: what publish_with_info returned to publish
    precord,     \* record: the answer of publish_package_record
    todo,        \* the missing content the upload loop has still to visit
    pcalls,      \* calls started
    polls,       \* polls of the running wait_for_publish
    api_calls,   \* history: the requests the call sent, in order
    uploaded,    \* history: the digests the call uploaded
    observed,    \* history: the record state the last poll returned
    perr,        \* history: the transport error the call received
    pre_pending, \* history: the pending publish when the call started
    intent       \* history: initializing() and the head of the loaded package

\* The in-memory data store of the server (MemoryDataStore).
VARIABLES
    operators,    \* State::operators: the operator logs
    spackages,    \* State::packages: the package logs
    checkpoints,  \* State::checkpoints: the checkpoint ids in insertion order
    records,      \* State::records: the status of every record of every log
    sret          \* what the last call returned

\* The loop over the records of one log of a fetch response.
VARIABLES
    ainput,       \* the info the loop starts from and the records of the log
    ainfo,        \* the operator or package info the loop advances
    arecs,        \* the records the loop has still to visit
    ares,         \* "running", "done", or the error the loop ended with
    atrace        \* history: every record visited, with the head index met,
                  \* whether it was passed to the validator, the info after

\* The callers of update_checkpoint: update, upsert, publish_with_info and
\* fetch_package.
VARIABLES
    ucaller,      \* the method called, or "none"
    udomain,      \* namespace_domain of the caller
    unames,       \* the packages the caller loads
    upc,          \* the await the caller is suspended at, or "idle"
    ustep,        \* the position of update_checkpoint in SyncSteps
    uresult,      \* what the last call returned
    ucalls,       \* calls started
    uses          \* history: every storage scope and registry the call
                  \* has turned to, in order

syncing ==
    <<storage, pc, result, dom, cstar, names, ps, again, operator, packages,
      last_known, request, from, tostore, rounds, passes, pre, snap, retry,
      writes, work, proven>>

resolving == <<env, rcalls, rresults>>

publishing ==
    <<pending, content, ppc, entry, presult, pinfo, ppackage, pres, precord,
      todo, pcalls, polls, api_calls, uploaded, observed, perr, pre_pending,
      intent>>

serving == <<operators, spackages, checkpoints, records, sret>>

applying == <<ainput, ainfo, arecs, ares, atrace>>

calling == <<ucaller, udomain, unames, upc, ustep, uresult, ucalls, uses>>

\* What update_checkpoint leaves alone.
outside_sync == <<resolving, publishing, serving, applying, calling>>

vars == <<syncing, resolving, publishing, serving, applying, calling>>

\* The resolver is not in use.
NotResolving ==
    /\ env = <<>>
    /\ rcalls = 0
    /\ rresults = <<>>

\* No call of the publish pipeline was made yet.
NotInPublish ==
    /\ pending = <<>>
    /\ content = {}
    /\ ppc = "idle"
    /\ entry = "none"
    /\ presult = <<"None">>
    /\ pinfo = <<>>
    /\ ppackage = <<>>
    /\ pres = <<>>
    /\ precord = <<>>
    /\ todo = <<>>
    /\ pcalls = 0
    /\ polls = 0
    /\ api_calls = <<>>
    /\ uploaded = {}
    /\ observed = <<>>
    /\ perr = <<>>
    /\ pre_pending = <<>>
    /\ intent = <<>>

\* A map without keys.
EmptyMap == [n \in {} |-> Nil]

\* State::default(): the data store right after MemoryDataStore::new().
NotServing ==
    /\ operators = EmptyMap
    /\ spackages = EmptyMap
    /\ checkpoints = <<>>
    /\ records = EmptyMap
    /\ sret = <<"None">>

\* No loop over the records of a response is modelled on its own.
NotApplying ==
    /\ ainput = <<>>
    /\ ainfo = <<>>
    /\ arecs = <<>>
    /\ ares = "none"
    /\ atrace = <<>>

\* No caller of update_checkpoint was called yet.
NotCalling ==
    /\ ucaller = "none"
    /\ udomain = None
    /\ unames = {}
    /\ upc = "idle"
    /\ ustep = 0
    /\ uresult = <<"None">>
    /\ ucalls = 0
    /\ uses = <<>>

\* The local variables of a call that is not running.
NoLocals ==
    /\ operator' = DefaultOperatorInfo
    /\ packages' = {}
    /\ last_known' = EmptyMap
    /\ request' = Nil
    /\ from' = Nil
    /\ tostore' = {}
    /\ rounds' = 0

locals == <<operator, packages, last_known, request, from, tostore, rounds>>
args == <<dom, cstar, names, again, passes, pre, snap, retry>>

\* ts_checkpoint, and checkpoint = &ts_checkpoint.as_ref().checkpoint.
Ts == Unwrap(cstar)
Checkpoint == Ts.checkpoint

\* The call returns res.
Return(res) ==
    /\ pc' = "idle"
    /\ result' = res
    /\ NoLocals

\* The call returns an error, or is dropped: the callers pass the error on
\* with `?` and the collection goes out of scope.
Fail(res) ==
    /\ Return(res)
    /\ ps' = EmptyMap

\* No call of update_checkpoint was made yet.
NotSyncing ==
    /\ storage = [d \in Domain |-> EmptyScope]
    /\ pc = "idle"
    /\ result = <<"None">>
    /\ dom = None
    /\ cstar = Nil
    /\ names = {}
    /\ ps = EmptyMap
    /\ again = FALSE
    /\ operator = DefaultOperatorInfo
    /\ packages = {}
    /\ last_known = EmptyMap
    /\ request = Nil
    /\ from = Nil
    /\ tostore = {}
    /\ rounds = 0
    /\ passes = 0
    /\ pre = [d \in Domain |-> EmptyScope]
    /\ snap = [d \in Domain |-> EmptyScope]
    /\ retry = FALSE
    /\ writes = <<>>
    /\ work = {}
    /\ proven = {}

Init ==
    /\ NotSyncing
    /\ NotResolving
    /\ NotInPublish
    /\ NotServing
    /\ NotApplying
    /\ NotCalling

\* ------------------------------------------------------------------ actions

\* A caller loads the PackageInfo of every name from the storage scope d
\* (PackageInfo::new for a name not stored) and calls
\* update_checkpoint(d, ts, collection).  The call suspends at load_operator.
Begin(d, ts, ns) ==
    /\ pc = "idle"
    /\ passes < MaxPasses
    /\ passes' = passes + 1
    /\ dom' = d
    /\ cstar' = Some(ts)
    /\ names' = ns
    /\ ps' = [n \in ns |->
                IF IsSome(LoadPackage(storage, n, d))
                THEN Unwrap(LoadPackage(storage, n, d))
                ELSE NewPackageInfo(n)]
    /\ again' = FALSE
    /\ retry' = (result = <<"Killed">> /\ dom = d /\ cstar = Some(ts) /\ names = ns)
    /\ snap' = IF retry' THEN snap ELSE storage
    /\ pre' = storage
    /\ writes' = <<>>
    /\ work' = {}
    /\ proven' = {}
    /\ pc' = "load_operator"
    /\ UNCHANGED <<storage, result, locals>>
    /\ UNCHANGED outside_sync

\* The caller of a call that succeeded calls update_checkpoint once more with
\* the same namespace-domain, the same checkpoint and the same collection.
CallAgain ==
    /\ pc = "idle"
    /\ result = <<"Ok">>
    /\ passes < MaxPasses
    /\ passes' = passes + 1
    /\ again' = TRUE
    /\ retry' = FALSE
    /\ snap' = storage
    /\ pre' = storage
    /\ writes' = <<>>
    /\ work' = {}
    /\ proven' = {}
    /\ pc' = "load_operator"
    /\ UNCHANGED <<storage, result, dom, cstar, names, ps, locals>>
    /\ UNCHANGED outside_sync

\* load_operator returned: unwrap_or_default, then step A; when a package is
\* left, the first fetch request is sent.
OperatorLoaded ==
    /\ pc = "load_operator"
    /\ LET op == IF IsSome(LoadOperator(storage, dom))
                 THEN Unwrap(LoadOperator(storage, dom))
                 ELSE DefaultOperatorInfo
           pkgs == {n \in names : ~Filtered(ps[n], Checkpoint)}
           known == [n \in pkgs |-> ps[n].head_fetch_token]
       IN IF pkgs = {}
          THEN /\ Return(<<"Ok">>)
               /\ work' = work \cup {"read"}
          ELSE /\ operator' = op
               /\ packages' = pkgs
               /\ last_known' = known
               /\ request' = Some(FetchRequest(Ts, op, known))
               /\ rounds' = 1
               /\ pc' = "fetch_logs"
               /\ work' = work \cup {"read", "network"}
               /\ UNCHANGED <<result, from, tostore>>
    /\ UNCHANGED <<storage, args, ps, writes, proven>>
    /\ UNCHANGED outside_sync

\* A storage read or write failed: the error is returned with `?` (as
\* ClientError::Other; the model keeps the name of the failed call).
StorageFailed ==
    /\ pc \in {"load_operator", "load_checkpoint", "store_operator",
               "store_package", "store_checkpoint"}
    /\ Fail(<<"Other", pc>>)
    /\ UNCHANGED <<storage, args, writes, work, proven>>
    /\ UNCHANGED outside_sync

\* A request to the registry failed in transport or was refused.
ApiFailed ==
    /\ pc \in {"fetch_logs", "prove_inclusion", "prove_log_consistency"}
    /\ Fail(<<"Api">>)
    /\ UNCHANGED <<storage, args, writes, work, proven>>
    /\ UNCHANGED outside_sync

\* fetch_logs failed with LogNotFound(id).
FetchLogNotFound(id) ==
    /\ pc = "fetch_logs"
    /\ Fail(TranslateLogNotFound(id, packages))
    /\ UNCHANGED <<storage, args, writes, work, proven>>
    /\ UNCHANGED outside_sync

\* fetch_logs returned resp: the operator loop, the package loop, then either
\* the next request (more) or the checkpoint signature, the leaves and the
\* inclusion request.
FetchResponse(resp) ==
    /\ pc = "fetch_logs"
    /\ resp.more => rounds < MaxFetch
    /\ LET opres == ApplyRecords(operator, resp.operator)
           newps == AppliedPackages(packages, ps, resp)
           calls == opres.calls +
                    Cardinality({n \in (DOMAIN resp.packages) \cap packages :
                                   ApplyRecords(ps[n], resp.packages[n]).calls > 0})
           known == [n \in packages |-> newps[n].head_fetch_token]
       IN /\ work' = IF calls > 0 THEN work \cup {"validate"} ELSE work
          /\ \E out \in FetchOutcomes(Ts, operator, packages, ps, resp) :
                IF out = <<"more">>
                THEN /\ operator' = opres.info
                     /\ ps' = newps
                     /\ last_known' = known
                     /\ request' = Some(FetchRequest(Ts, opres.info, known))
                     /\ rounds' = rounds + 1
                     /\ UNCHANGED <<pc, result, packages, from, tostore>>
                ELSE IF out = <<"prove">>
                THEN /\ operator' = opres.info
                     /\ ps' = newps
                     /\ pc' = "prove_inclusion"
                     /\ request' = Nil
                     /\ UNCHANGED <<result, packages, last_known, from,
                                    tostore, rounds>>
                ELSE Fail(out)
    /\ UNCHANGED <<storage, args, writes, proven>>
    /\ UNCHANGED outside_sync

\* prove_inclusion returned a proof that verifies against the checkpoint;
\* load_checkpoint is called.
InclusionProved ==
    /\ pc = "prove_inclusion"
    /\ InclusionVerifies(dom, Checkpoint, Leaves(operator, packages, ps))
    /\ proven' = Leaves(operator, packages, ps)
    /\ pc' = "load_checkpoint"
    /\ work' = work \cup {"read"}
    /\ UNCHANGED <<storage, args, ps, result, operator, packages, last_known,
                   request, from, tostore, rounds, writes>>
    /\ UNCHANGED outside_sync

\* load_checkpoint returned: the rewind / consistency / root comparison.
CheckpointLoaded ==
    /\ pc = "load_checkpoint"
    /\ LET prev == LoadCheckpoint(storage)
           out == CompareCheckpoints(prev, Ts)
       IN IF out \in {<<"commit">>, <<"consistency">>}
          THEN /\ pc' = IF out = <<"commit">> THEN "store_operator"
                                              ELSE "prove_log_consistency"
               /\ from' = prev
               /\ UNCHANGED <<result, ps, operator, packages, last_known,
                              request, tostore, rounds>>
          ELSE Fail(out)
    /\ work' = work \cup {"compare"}
    /\ UNCHANGED <<storage, args, writes, proven>>
    /\ UNCHANGED outside_sync

\* prove_log_consistency returned a proof that verifies.
ConsistencyProved ==
    /\ pc = "prove_log_consistency"
    /\ ConsistencyVerifies(Unwrap(from).checkpoint, Checkpoint)
    /\ pc' = "store_operator"
    /\ UNCHANGED <<storage, args, ps, result, locals, writes, work, proven>>
    /\ UNCHANGED outside_sync

\* store_operator(operator) is done; the loop over the packages starts.
OperatorStored ==
    /\ pc = "store_operator"
    /\ storage' = StoreOperator(storage, operator, dom)
    /\ writes' = Append(writes, [entity |-> "operator", value |-> Some(operator)])
    /\ work' = work \cup {"write"}
    /\ tostore' = packages
    /\ pc' = "store_package"
    /\ UNCHANGED <<args, ps, result, operator, packages, last_known, request,
                   from, rounds, proven>>
    /\ UNCHANGED outside_sync

\* One turn of the commit loop: the checkpoint of the package is set and
\* store_package(package) is done.  The loop runs over the values of a
\* HashMap, in any order.
PackageStored(n) ==
    /\ pc = "store_package"
    /\ n \in tostore
    /\ LET p == SetCheckpoint(ps[n], Checkpoint)
       IN /\ ps' = [ps EXCEPT ![n] = p]
          /\ storage' = StorePackage(storage, p, dom)
          /\ writes' = Append(writes, [entity |-> n, value |-> Some(p)])
    /\ work' = work \cup {"write"}
    /\ tostore' = tostore \ {n}
    /\ pc' = NextStore(tostore')
    /\ UNCHANGED <<args, result, operator, packages, last_known, request,
                   from, rounds, proven>>
    /\ UNCHANGED outside_sync

\* store_checkpoint(ts_checkpoint) is done and the call returns Ok.
CheckpointStored ==
    /\ pc = "store_checkpoint"
    /\ storage' = StoreCheckpoint(storage, Ts, dom)
    /\ writes' = Append(writes, [entity |-> "checkpoint", value |-> cstar])
    /\ work' = work \cup {"write"}
    /\ Return(<<"Ok">>)
    /\ UNCHANGED <<args, ps, proven>>
    /\ UNCHANGED outside_sync

\* The call is cancelled, or the process is killed, at the await it is
\* suspended at: what is in memory is lost, the storage stays.
Kill ==
    /\ pc # "idle"
    /\ Fail(<<"Killed">>)
    /\ UNCHANGED <<storage, args, writes, work, proven>>
    /\ UNCHANGED outside_sync

Next ==
    \/ \E d \in Domain, ts \in TsCheckpoints, ns \in SUBSET PackageNames :
         Begin(d, ts, ns)
    \/ CallAgain
    \/ OperatorLoaded
    \/ StorageFailed
    \/ ApiFailed
    \/ \E id \in LogIds : FetchLogNotFound(id)
    \/ \E resp \in Responses(dom) : FetchResponse(resp)
    \/ InclusionProved
    \/ CheckpointLoaded
    \/ ConsistencyProved
    \/ OperatorStored
    \/ \E n \in PackageNames : PackageStored(n)
    \/ CheckpointStored
    \/ Kill

Spec == Init /\ [][Next]_vars

\* ------------------------------------------------------------- properties

\* The log_length of a stored checkpoint.
LogLength(c) == Unwrap(c).checkpoint.log_length

\* The call has returned (it was not killed).
Returned == pc = "idle" /\ result \notin {<<"None">>, <<"Killed">>}

\* The call has returned an error.
ReturnedError == Returned /\ result # <<"Ok">>

\* The call has returned Ok after a commit.
Committed == pc = "idle" /\ result = <<"Ok">> /\ writes # <<>>

\* The operator info of registry d advanced to the head under log_length n.
HeadOperatorInfo(d, n) ==
    [state |-> [head |-> Some(RecordId(Record(d, HeadIndex(d, OperatorLog, n))))],
     head_registry_index |-> Some(HeadIndex(d, OperatorLog, n)),
     head_fetch_token |-> Some(Record(d, HeadIndex(d, OperatorLog, n)).fetch_token)]

\* The package info of l in registry d advanced to the head under checkpoint c.
HeadPackageInfo(d, l, c) ==
    [name |-> l,
     state |-> [head |-> Some(RecordId(Record(d, HeadIndex(d, l, c.log_length))))],
     head_registry_index |-> Some(HeadIndex(d, l, c.log_length)),
     head_fetch_token |-> Some(Record(d, HeadIndex(d, l, c.log_length)).fetch_token),
     checkpoint |-> Some(c)]

\* The storage one uninterrupted successful call update_checkpoint(d, ts, ns)
\* leaves when it starts from storage s0 and commits.
Uninterrupted(s0, d, ts, ns) ==
    [s0 EXCEPT ![d] =
        [operator |-> Some(HeadOperatorInfo(d, ts.checkpoint.log_length)),
         packages |->
            [n \in PackageNames |->
                IF /\ n \in ns
                   /\ ~(/\ IsSome(s0[d].packages[n])
                        /\ Unwrap(s0[d].packages[n]).checkpoint = Some(ts.checkpoint))
                THEN Some(HeadPackageInfo(d, n, ts.checkpoint))
                ELSE s0[d].packages[n]],
         checkpoint |-> Some(ts)]]

\* C1: a call that completes its commit, be it the first attempt or the
\* repetition of a call that was killed at any await (between the stores of
\* its commit included), leaves the storage one uninterrupted call would
\* have left from the storage before the first attempt.
C1_CrashSafety ==
    Committed => storage = Uninterrupted(snap, dom, Ts, names)

\* A killed call had stored part of its commit and its repetition committed.
C1_Witness ==
    /\ Committed
    /\ retry
    /\ pre # snap
    /\ \E n \in PackageNames : pre[dom].packages[n] # snap[dom].packages[n]

\* C2: no stored package info carries a checkpoint with a greater log_length
\* than the stored checkpoint of its scope.
C2_PackageNotNewerThanCheckpoint ==
    \A d \in Domain, n \in PackageNames :
        (/\ IsSome(storage[d].packages[n])
         /\ IsSome(Unwrap(storage[d].packages[n]).checkpoint)
         /\ IsSome(storage[d].checkpoint))
        => Unwrap(Unwrap(storage[d].packages[n]).checkpoint).log_length
              <= LogLength(storage[d].checkpoint)


\* C3: a call cancelled at an await leaves the storage with none of its
\* writes or with all of them.
C3_CancelAllOrNothing ==
    (pc = "idle" /\ result = <<"Killed">>)
    => \/ storage = pre
       \/ {writes[i].entity : i \in 1..Len(writes)}
             = {"operator", "checkpoint"} \cup
               {n \in names : ~Filtered(
                   IF IsSome(LoadPackage(pre, n, dom))
                   THEN Unwrap(LoadPackage(pre, n, dom))
                   ELSE NewPackageInfo(n), Checkpoint)}

\* C4: the log_length of the stored checkpoint of a scope never decreases
\* over a call.
C4_MonotoneCheckpoint ==
    \A d \in Domain :
        (IsSome(pre[d].checkpoint) /\ IsSome(storage[d].checkpoint))
        => LogLength(storage[d].checkpoint) >= LogLength(pre[d].checkpoint)

\* The call runs against a checkpoint shorter than the stored checkpoint c.
RewindFrom(c) ==
    /\ IsSome(cstar)
    /\ IsSome(c)
    /\ LogLength(c) > Checkpoint.log_length

EquivocationOf(d) ==
    /\ IsSome(cstar)
    /\ IsSome(pre[d].checkpoint)
    /\ LogLength(pre[d].checkpoint) = Checkpoint.log_length
    /\ \/ Unwrap(pre[d].checkpoint).checkpoint.log_root # Checkpoint.log_root
       \/ Unwrap(pre[d].checkpoint).checkpoint.map_root # Checkpoint.map_root

\* C6: a call that gets as far as the comparison with the stored checkpoint
\* of its scope, against a checkpoint of the same log_length and another
\* log_root or map_root, fails with
\* CheckpointChangedLogRootOrMapRoot{log_length} and changes no entity.
C6_EquivocationFails ==
    ("compare" \in work /\ EquivocationOf(dom))
    => /\ pc = "idle"
       /\ result \in {<<"CheckpointChangedLogRootOrMapRoot",
                        Checkpoint.log_length>>, <<"Killed">>}
       /\ storage = pre

\* C7: the second of two calls with the same checkpoint and the same
\* collection, after the first succeeded, sends no request, validates no
\* record, writes nothing and leaves the storage as it was.
C7_SecondCallDoesNothing ==
    again => /\ work \subseteq {"read"}
             /\ writes = <<>>
             /\ storage = pre
             /\ pc \in {"load_operator", "idle"}
             /\ pc = "idle" =>
                  result \in {<<"Ok">>, <<"Killed">>, <<"Other", "load_operator">>}

\* The second call has returned Ok and the first one had committed packages.
C7_Witness ==
    /\ again
    /\ pc = "idle"
    /\ result = <<"Ok">>
    /\ names # {}
    /\ \E n \in names : IsSome(LoadPackage(storage, n, dom))

\* C8: a call that returns an error of any kind has issued no store and
\* leaves the storage as it was before the call.
C8_ErrorWritesNothing ==
    ReturnedError => (writes = <<>> /\ storage = pre)

\* Every error but the failure of a store_package or of store_checkpoint of
\* the commit itself is returned before the first store.
ErrorBeforeCommitWritesNothing ==
    (ReturnedError /\ result \notin {<<"Other", "store_package">>,
                                      <<"Other", "store_checkpoint">>})
    => (writes = <<>> /\ "write" \notin work /\ storage = pre)

\* C9: every package info a call stores carries the checkpoint of the call,
\* and its head (record id and registry index) is a leaf of the inclusion
\* proof verified earlier in the call.
C9_StoredHeadsProven ==
    \A i \in 1..Len(writes) :
        writes[i].entity \in PackageNames
        => LET p == Unwrap(writes[i].value)
           IN /\ p.checkpoint = Some(Checkpoint)
              /\ IsSome(p.state.head)
              /\ IsSome(p.head_registry_index)
              /\ Leaf(p.name, p) \in proven

\* A call has stored a package info.
C9_Witness ==
    \E i \in 1..Len(writes) :
        /\ writes[i].entity \in PackageNames
        /\ LoadPackage(storage, writes[i].entity, dom) = writes[i].value

\* C10: a call for a namespace-domain reads only state of the scope of that
\* domain: the checkpoint it compares the new one with is the stored
\* checkpoint of its own scope.
C10_ReadsOwnScope ==
    pc \in {"prove_log_consistency", "store_operator"}
    => from = pre[dom].checkpoint

\* The packages step A keeps: those of the collection that are not at the
\* checkpoint of the call.
PassPackages ==
    {n \in names :
        ~Filtered(IF IsSome(LoadPackage(pre, n, dom))
                  THEN Unwrap(LoadPackage(pre, n, dom))
                  ELSE NewPackageInfo(n), Checkpoint)}

\* The entities the call has stored, in order.
Stored(i) == writes[i].entity

\* C23: a call stores only after the checkpoint signature, the inclusion
\* proof and the comparison with the previous checkpoint (with its
\* consistency proof) succeeded, and in this order: the operator info first,
\* then each package of the pass once, with the checkpoint of the call set,
\* and the checkpoint last, after every package of the pass.
C23_CommitOrder ==
    writes # <<>> =>
        /\ Stored(1) = "operator"
        /\ \A i, j \in 1..Len(writes) : Stored(i) = Stored(j) => i = j
        /\ \A i \in 1..Len(writes) :
              /\ Stored(i) \in PackageNames =>
                    /\ Stored(i) \in PassPackages
                    /\ Unwrap(writes[i].value).checkpoint = Some(Checkpoint)
              /\ Stored(i) = "checkpoint" =>
                    /\ i = Len(writes)
                    /\ writes[i].value = cstar
                    /\ {Stored(k) : k \in 2..(i - 1)} = PassPackages
        /\ LET op == Unwrap(writes[1].value) IN
              /\ IsSome(PublicKey(op.state, Ts.key_id))
              /\ VerifySignature(Unwrap(PublicKey(op.state, Ts.key_id)), Ts)
              /\ IsSome(op.head_registry_index)
        /\ proven # {}
        /\ "compare" \in work
        /\ CompareCheckpoints(LoadCheckpoint(pre), Ts) \in {<<"commit">>, <<"consistency">>}
        /\ CompareCheckpoints(LoadCheckpoint(pre), Ts) = <<"consistency">>
              => ConsistencyVerifies(Unwrap(LoadCheckpoint(pre)).checkpoint, Checkpoint)

\* A call has stored the operator info, two package infos and the checkpoint.
C23_Witness ==
    /\ Committed
    /\ Len(writes) = 4
    /\ Stored(1) = "operator"
    /\ {Stored(2), Stored(3)} = PackageNames
    /\ Stored(4) = "checkpoint"

\* The packages step A drops take no part in the call: they are in no fetch
\* request, in no leaf of the inclusion proof and in no store.
DroppedTakeNoPart ==
    (pc # "idle" \/ Returned) =>
        /\ packages \subseteq PassPackages
        /\ IsSome(request) => DOMAIN Unwrap(request).packages \subseteq PassPackages
        /\ \A leaf \in proven : leaf.log_id \in PassPackages \cup {OperatorLog}
        /\ \A i \in 1..Len(writes) :
              Stored(i) \in PackageNames => Stored(i) \in PassPackages

\* C24: the packages at the checkpoint of the call are dropped from the
\* pass, and a call that step A leaves no package returns Ok having done no
\* I/O: no request to the registry, no read of the storage, no write.
C24_StepA ==
    /\ DroppedTakeNoPart
    /\ (Returned /\ PassPackages = {}) => (result = <<"Ok">> /\ work = {})

\* The call is suspended at fetch_logs and resp is a last response (more is
\* false) whose operator loop and package loop end without error.
LoopEndsWith(resp) ==
    /\ pc = "fetch_logs"
    /\ ~resp.more
    /\ ApplyRecords(operator, resp.operator).ok
    /\ PackageErrors(packages, ps, resp) = {}

\* The operator info and the package infos after the loops of resp.
OperatorAfter(resp) == ApplyRecords(operator, resp.operator).info
PackagesAfter(resp) == AppliedPackages(packages, ps, resp)

\* The packages of the pass whose log is empty after the loops of resp.
EmptyAfter(resp) == {n \in packages : PackagesAfter(resp)[n].state.head = Nil}

\* The checkpoint of the call verifies under the operator state op.
CheckpointVerifies(op) ==
    /\ IsSome(PublicKey(op.state, Ts.key_id))
    /\ VerifySignature(Unwrap(PublicKey(op.state, Ts.key_id)), Ts)

\* C26 as stated: a call whose fetch loop ends with a package log that is
\* still empty fails with PackageLogEmpty.
C26_EmptyLogIsPackageLogEmpty ==
    pc = "fetch_logs" =>
        \A resp \in Responses(dom) :
            (~resp.more /\ EmptyAfter(resp) # {})
            => FetchOutcomes(Ts, operator, packages, ps, resp)
                  \subseteq {<<"PackageLogEmpty", n>> : n \in EmptyAfter(resp)}

\* C26 as amended: a call that goes on to the proofs, and so every call that
\* returns success after a commit, has a head and a head_registry_index for
\* every package of the pass.  A package whose log is empty after the fetch
\* loop makes the call fail: with PackageLogEmpty for a package that has an
\* entry in the response whose records (none) validate, unless the operator
\* loop or the entry of another package fails first; with PackageLogEmpty for a package without entry,
\* unless the checkpoint key or signature check, which comes before the
\* test of the heads, fails first.
C26_NoEmptyLogAfterSuccess ==
    /\ pc \in {"prove_inclusion", "load_checkpoint", "prove_log_consistency",
                "store_operator", "store_package", "store_checkpoint"}
          => \A n \in packages :
                IsSome(ps[n].state.head) /\ IsSome(ps[n].head_registry_index)
    /\ Committed =>
          /\ {Stored(i) : i \in 2..(Len(writes) - 1)} = PassPackages
          /\ \A i \in 2..(Len(writes) - 1) :
                /\ IsSome(Unwrap(writes[i].value).state.head)
                /\ IsSome(Unwrap(writes[i].value).head_registry_index)
    /\ pc = "fetch_logs" =>
          \A resp \in Responses(dom) :
              LET out == FetchOutcomes(Ts, operator, packages, ps, resp)
                  empty == EmptyAfter(resp)
              IN  /\ (empty # {} /\ ~resp.more) =>
                        (<<"prove">> \notin out /\ <<"more">> \notin out)
                  /\ \A n \in empty \cap DOMAIN resp.packages :
                        (/\ ApplyRecords(operator, resp.operator).ok
                         /\ ApplyRecords(ps[n], resp.packages[n]).ok)
                        => <<"PackageLogEmpty", n>> \in out
                  /\ (/\ LoopEndsWith(resp)
                      /\ empty # {}
                      /\ CheckpointVerifies(OperatorAfter(resp)))
                     => out = {<<"PackageLogEmpty", n>> : n \in empty}

\* A call whose operator log was advanced has failed with PackageLogEmpty.
C26_Witness ==
    /\ Returned
    /\ result[1] = "PackageLogEmpty"
    /\ "validate" \in work
    /\ writes = <<>>

\* C27: a call whose fetch loop ends with an operator log without validated
\* record (no head, no head_registry_index) fails with NoOperatorRecords.
C27_NoOperatorRecords ==
    pc = "fetch_logs" =>
        \A resp \in Responses(dom) :
            (/\ LoopEndsWith(resp)
             /\ OperatorAfter(resp).state.head = Nil
             /\ OperatorAfter(resp).head_registry_index = Nil)
            => FetchOutcomes(Ts, operator, packages, ps, resp)
                  = {<<"NoOperatorRecords">>}

\* C28: at the end of the fetch loop the checkpoint key is looked up in the
\* operator state as the records of the pass advanced it.  A key id that is
\* not bound there makes the call fail with InvalidCheckpointKeyId, a
\* signature that does not verify under the key with
\* InvalidCheckpointSignature, in both cases straight from the fetch loop:
\* no inclusion proof was verified, no checkpoint compared, nothing stored.
\* A call that goes on to the proofs has verified the checkpoint.
C28_CheckpointSignature ==
    /\ pc = "fetch_logs" =>
          \A resp \in Responses(dom) :
              LoopEndsWith(resp) =>
                  LET out == FetchOutcomes(Ts, operator, packages, ps, resp)
                      op == OperatorAfter(resp)
                  IN  /\ PublicKey(op.state, Ts.key_id) = Nil
                            => out = {<<"InvalidCheckpointKeyId", Ts.key_id>>}
                      /\ (/\ IsSome(PublicKey(op.state, Ts.key_id))
                          /\ ~VerifySignature(Unwrap(PublicKey(op.state, Ts.key_id)), Ts))
                            => out = {<<"InvalidCheckpointSignature">>}
    /\ (Returned /\ result[1] \in {"InvalidCheckpointKeyId",
                                     "InvalidCheckpointSignature"})
          => (proven = {} /\ "compare" \notin work /\ writes = <<>>
              /\ storage = pre)
    /\ pc \in {"prove_inclusion", "load_checkpoint", "prove_log_consistency",
                "store_operator", "store_package", "store_checkpoint"}
          => CheckpointVerifies(operator)

\* A call that started without stored operator info goes on to the inclusion
\* proof: the key was bound by an operator record applied in this call.
C28_Witness ==
    /\ pc = "prove_inclusion"
    /\ LoadOperator(pre, dom) = Nil
    /\ CheckpointVerifies(operator)
    /\ "validate" \in work

\* A call has failed with InvalidCheckpointSignature.
C28_WitnessSignature ==
    /\ Returned
    /\ result = <<"InvalidCheckpointSignature">>

\* The fetch token of info is the one the server issued with the record at
\* the head index of info, and is absent when no record was applied.
TokenOfHead(info) ==
    IF info.head_registry_index = Nil
    THEN info.head_fetch_token = Nil
    ELSE info.head_fetch_token
            = Some(Record(dom, Unwrap(info.head_registry_index)).fetch_token)

\* The request in flight carries the log_length of the checkpoint of the
\* call, the fetch token of the operator info and, for each package of the
\* pass and no other, the fetch token of its info.
RequestCarriesTokens ==
    IF pc = "fetch_logs"
    THEN /\ IsSome(request)
         /\ Unwrap(request).log_length = Checkpoint.log_length
         /\ Unwrap(request).operator = operator.head_fetch_token
         /\ TokenOfHead(operator)
         /\ DOMAIN Unwrap(request).packages = packages
         /\ packages = PassPackages
         /\ \A n \in packages :
               /\ Unwrap(request).packages[n] = ps[n].head_fetch_token
               /\ TokenOfHead(ps[n])
         /\ rounds >= 1
    ELSE request = Nil

\* C29: every fetch request of a call carries log_length = C*.log_length,
\* the current fetch token of the operator info and, for each package of the
\* pass, the fetch token of the last record applied to it (none if no record
\* was applied), as the server issued it.  A request is sent first after
\* load_operator and again only from the fetch loop itself, with the tokens
\* refreshed; once the loop is left no fetch request is sent in the call.
C29_FetchProtocol ==
    [][/\ RequestCarriesTokens'
       /\ pc' = "fetch_logs" => pc \in {"load_operator", "fetch_logs"}
       /\ (pc = "fetch_logs" /\ pc' = "fetch_logs") => rounds' = rounds + 1
       /\ (pc = "load_operator" /\ pc' = "fetch_logs") => rounds' = 1
       /\ pc' # "fetch_logs" => rounds' \in {0, rounds}]_vars

\* The second request of a call echoes the fetch token of a record that the
\* first response brought for a package that was not stored before.
C29_Witness ==
    /\ pc = "fetch_logs"
    /\ rounds = 2
    /\ \E n \in packages :
          /\ LoadPackage(pre, n, dom) = Nil
          /\ IsSome(Unwrap(request).packages[n])
    /\ IsSome(Unwrap(request).operator)

\* The log ids of a response that are no package of the pass.
ForeignLogs(resp) == (DOMAIN resp.packages) \ packages

\* What the call returns for the response resp to the request in flight.
Outcomes(resp) == FetchOutcomes(Ts, operator, packages, ps, resp)

MaxFiles == 2

\* The registry the default operator log imports the namespace from.
ImportedRegistry == "R"

\* self.registry.load_operator(None) and op.state.namespace_state(namespace):
\* the load fails, no operator is stored, or one is stored and the namespace
\* is unknown to it, Defined, Imported { registry }, or not a namespace it
\* can look up.
OperatorLoads ==
    {[kind |-> "fail", state |-> "-"],
     [kind |-> "absent", state |-> "-"],
     [kind |-> "present", state |-> "Unknown"],
     [kind |-> "present", state |-> "Defined"],
     [kind |-> "present", state |-> "Imported"],
     [kind |-> "present", state |-> "Invalid"]}

\* What a .warg.json holds for the namespace: the file cannot be read, is
\* not a flat JSON map, or is one, without or with the namespace.
FileContents ==
    {[read |-> "unreadable", value |-> Nil],
     [read |-> "invalid", value |-> Nil],
     [read |-> "ok", value |-> Nil],
     [read |-> "ok", value |-> Some("F1")],
     [read |-> "ok", value |-> Some("F2")]}

\* The entries WalkDir yields that pass the filter: the files named
\* .warg.json with their depth, and the entries WalkDir could not read.
WalkEntries ==
    {[kind |-> "err", depth |-> 1, content |-> [read |-> "unreadable", value |-> Nil]]}
    \cup {[kind |-> "file", depth |-> d, content |-> c] :
            d \in 1..2, c \in FileContents}

\* The entries of the working tree in the order the walk meets them.
Walks ==
    UNION {[1..n -> WalkEntries] : n \in 0..MaxFiles}

\* self.namespace_map.load_namespace_map(): the load fails, there is no map,
\* or there is one, without or with the namespace.
NamespaceMapLoads ==
    {[kind |-> "fail", value |-> Nil],
     [kind |-> "absent", value |-> Nil],
     [kind |-> "present", value |-> Nil],
     [kind |-> "present", value |-> Some("M")]}

\* Everything a call of the resolver reads.
Envs ==
    [operator : OperatorLoads, cwd : BOOLEAN, files : Walks,
     namespace_map : NamespaceMapLoads]

\* A walk whose order changes from one call to the next.
WalkDirUnstable(files) ==
    IF rcalls % 2 = 1
    THEN [i \in 1..Len(files) |-> files[Len(files) + 1 - i]]
    ELSE files

\* WalkDir::new(current_dir).into_iter(): the order of the entries is the
\* order the directories list them in, the same for every walk of a tree
\* that did not change.
WalkDir(files) == files

\* .reduce(|deepest, cur| if deepest.depth() < cur.depth() { cur } else
\* { deepest }): the first of the deepest files.
RECURSIVE Reduce(_, _)
Reduce(deepest, rest) ==
    IF rest = <<>> THEN deepest
    ELSE Reduce(IF deepest.depth < Head(rest).depth THEN Head(rest) ELSE deepest,
                Tail(rest))

\* local_namespace_config_path.
DeepestConfig(walk) ==
    IF walk = <<>> THEN Nil ELSE Some(Reduce(Head(walk), Tail(walk)))

\* A resolver that asks the client-wide namespace map first.
NamespaceMapFirst(e, domain) ==
    IF e.namespace_map.kind = "fail" THEN <<"Other", "load_namespace_map">>
    ELSE IF IsSome(e.namespace_map.value) THEN <<"Ok", e.namespace_map.value>>
    ELSE <<"Ok", domain>>

\* The last step: if domain.is_none(), the client-wide namespace map.
NamespaceMapStep(e, domain) ==
    IF IsSome(domain) THEN <<"Ok", domain>>
    ELSE IF e.namespace_map.kind = "fail" THEN <<"Other", "load_namespace_map">>
    ELSE <<"Ok", e.namespace_map.value>>

\* The else branch of `if let Some(op) = operator`: the deepest .warg.json
\* of the working tree.
FileStep(e) ==
    IF ~e.cwd THEN <<"NoCurrentDirectory">>
    ELSE IF \E i \in 1..Len(WalkDir(e.files)) : WalkDir(e.files)[i].kind = "err"
    THEN <<"panic">>
    ELSE LET c == DeepestConfig(WalkDir(e.files))
         IN IF c = Nil THEN NamespaceMapStep(e, Nil)
            ELSE IF Unwrap(c).content.read = "unreadable"
            THEN <<"NoNamespaceConfig">>
            ELSE IF Unwrap(c).content.read = "invalid"
            THEN <<"InvalidLocalNamespaceConfig">>
            ELSE NamespaceMapStep(e, Unwrap(c).content.value)

\* Client::get_package_namespace_domain.
GetPackageNamespaceDomain(e) ==
    IF e.operator.kind = "fail" THEN <<"Other", "load_operator">>
    ELSE IF e.operator.kind = "present"
    THEN IF e.operator.state = "Invalid" THEN <<"NamespaceStateError">>
         ELSE IF e.operator.state = "Imported"
         THEN NamespaceMapStep(e, Some(ImportedRegistry))
         ELSE NamespaceMapStep(e, Nil)
    ELSE FileStep(e)

\* ====================================================== the publish pipeline

\* Calls of the pipeline in one behaviour.
MaxPublishes == 2

\* Missing contents in one answer of publish_package_record.
MaxMissing == 2

\* Sleeps of one wait_for_publish.
MaxPolls == 2

\* info.name / package.name, identified with the LogId of the package log.
PublishName == "a"

\* record.record_id of the answer of publish_package_record, and the
\* record_id wait_for_publish is called with.
SubmittedRecordId == "R1"

\* The reason of PackageError::Rejection and PackageRecordState::Rejected.
Reason == "digest mismatch"

Digests == {"d1", "d2"}

\* PublishInfo { name, head, entries }, by the kind of the first entry.
PublishInfos ==
    [name : {PublishName}, head : {Nil, Some("h0")},
     entries : {<<>>, <<"Init">>, <<"Release">>}]

\* A publish_with_info that takes an info without entries for one with.
EntriesEmptyNever(info) == FALSE

\* info.entries.is_empty(), the first test of publish_with_info.
EntriesEmpty(info) == info.entries = <<>>

\* PublishInfo::initializing.
Initializing(info) ==
    /\ info.head = Nil
    /\ info.entries # <<>>
    /\ Head(info.entries) = "Init"

\* self.registry.load_package(&info.name, namespace_domain): the load fails,
\* the package is not stored, or it is stored with its head.
PackageLoads ==
    {[kind |-> "fail", head |-> Nil],
     [kind |-> "absent", head |-> Nil],
     [kind |-> "present", head |-> Some("h0")]}

\* The environments publish resolves the namespace in: no mapping at all, an
\* import by the default operator, a namespace the operator state cannot
\* look up, and a .warg.json that is not a flat JSON map.
PublishEnvs ==
    {[operator |-> [kind |-> "absent", state |-> "-"], cwd |-> TRUE,
      files |-> <<>>, namespace_map |-> [kind |-> "absent", value |-> Nil]],
     [operator |-> [kind |-> "present", state |-> "Imported"], cwd |-> TRUE,
      files |-> <<>>, namespace_map |-> [kind |-> "absent", value |-> Nil]],
     [operator |-> [kind |-> "present", state |-> "Invalid"], cwd |-> TRUE,
      files |-> <<>>, namespace_map |-> [kind |-> "absent", value |-> Nil]],
     [operator |-> [kind |-> "absent", state |-> "-"], cwd |-> TRUE,
      files |-> <<[kind |-> "file", depth |-> 1,
                   content |-> [read |-> "invalid", value |-> Nil]]>>,
      namespace_map |-> [kind |-> "absent", value |-> Nil]]}

\* api::ClientError of fetch_logs, publish_package_record and
\* get_package_record: LogNotFound(id) for the log of the package or for
\* another log, or any other error.
TransportErrors ==
    {[kind |-> "LogNotFound", id |-> PublishName],
     [kind |-> "LogNotFound", id |-> UnknownLog],
     [kind |-> "Other", id |-> "-"]}

\* api::ClientError of upload_content: PackageError::Rejection(reason) or
\* any other error.
UploadErrors ==
    {[kind |-> "Rejection", id |-> "-"],
     [kind |-> "Other", id |-> "-"]}

\* ClientError::translate_log_not_found with the lookup of the call site:
\* the match on the error, then the lookup of the id.
TranslateError(e, pkgs) ==
    IF e.kind = "LogNotFound" THEN TranslateLogNotFound(e.id, pkgs)
    ELSE <<"Api">>

\* upload.first(): UploadEndpoint::Http, another endpoint, or none.
Endpoints == {"Http", "Other", "None"}

\* record.missing_content(): (digest, MissingContent { upload }) pairs in
\* the order the loop visits them.
MissingContents ==
    {m \in UNION {[1..n -> [digest : Digests, endpoint : Endpoints]] :
                    n \in 0..MaxMissing} :
        \A i, j \in 1..Len(m) : m[i].digest = m[j].digest => i = j}

\* The answers of publish_package_record.
PublishedRecords == [record_id : {SubmittedRecordId}, missing : MissingContents]

\* PackageRecordState.
RecordStates == {"Sourcing", "Processing", "Published", "Rejected"}

\* An upload loop that skips nothing.
SkipNothing(m) == m

\* let Some(UploadEndpoint::Http { .. }) = upload.first() else { continue }:
\* the loop goes on to the next pair whose first endpoint is Http.
RECURSIVE SkipToHttp(_)
SkipToHttp(m) ==
    IF m = <<>> THEN m
    ELSE IF Head(m).endpoint = "Http" THEN m
    ELSE SkipToHttp(Tail(m))

\* A publish that synchronizes the package whatever the intent.
NeedsResyncAlways(info) == TRUE

\* !initializing && info.head.is_none(): the package is brought to the
\* latest checkpoint to learn its head.
NeedsResync(info) == ~Initializing(info) /\ info.head = Nil

\* info.finalize(signing_key): the record carries prev = info.head.
FinalizeRecord(info) == [prev |-> info.head, entries |-> info.entries]

\* The match on (initializing, info.head.is_some()); "submit" stands for
\* going on to finalize and submit.
Reconcile(initializing, head) ==
    IF initializing /\ IsSome(head)
    THEN <<"CannotInitializePackage", PublishName>>
    ELSE IF ~initializing /\ head = Nil
    THEN <<"MustInitializePackage", PublishName>>
    ELSE <<"submit">>

\* A wait that takes a record still awaiting content for published.
PollOutcomeLenient(st) ==
    CASE st = "Sourcing" -> <<"Ok">>
      [] st = "Published" -> <<"Ok">>
      [] st = "Rejected" ->
            <<"PublishRejected", PublishName, SubmittedRecordId, Reason>>
      [] OTHER -> <<"sleep">>

\* A wait that goes on polling a record that is published.
PollOutcomePublishedSleeps(st) ==
    CASE st = "Sourcing" -> <<"PackageMissingContent">>
      [] st = "Rejected" ->
            <<"PublishRejected", PublishName, SubmittedRecordId, Reason>>
      [] OTHER -> <<"sleep">>

\* The match on current.state in wait_for_publish; "sleep" stands for
\* sleeping and polling again.
PollOutcome(st) ==
    CASE st = "Sourcing" -> <<"PackageMissingContent">>
      [] st = "Published" -> <<"Ok">>
      [] st = "Rejected" ->
            <<"PublishRejected", PublishName, SubmittedRecordId, Reason>>
      [] OTHER -> <<"sleep">>

\* What the pipeline leaves alone.
outside_publish == <<syncing, rcalls, rresults, serving, applying, calling>>

\* The call goes on to the await p.
Goto(p) ==
    /\ ppc' = p
    /\ UNCHANGED <<presult, pres>>

\* The call returns res to its caller.
PReturn(res) ==
    /\ ppc' = "idle"
    /\ presult' = res
    /\ UNCHANGED pres

\* publish_with_info returns res: to publish, which goes on to
\* store_publish(None), or to its caller.
Finish(res) ==
    IF entry = "publish"
    THEN /\ ppc' = "store_publish"
         /\ pres' = Some(res)
         /\ UNCHANGED presult
    ELSE /\ ppc' = "idle"
         /\ presult' = res
         /\ UNCHANGED pres

\* From the head being settled to the submission: the reconciliation, then
\* info.finalize(signing_key)?, which signs (fin) or fails.
Finalize(initializing, head, fin) ==
    IF Reconcile(initializing, head) # <<"submit">>
    THEN Finish(Reconcile(initializing, head))
    ELSE IF ~fin THEN Finish(<<"Other", "finalize">>)
    ELSE Goto("publish_package_record")

\* The upload loop goes on with the pairs m: the next upload, or the end of
\* publish_with_info with the record id.
UploadLoop(m) ==
    /\ todo' = SkipToHttp(m)
    /\ IF SkipToHttp(m) = <<>>
       THEN Finish(<<"Ok", Unwrap(precord').record_id>>)
       ELSE Goto("load_content")

\* A new call starts: its locals and the history of the call before it.
NewCall(e) ==
    /\ ppc = "idle"
    /\ pcalls < MaxPublishes
    /\ pcalls' = pcalls + 1
    /\ entry' = e
    /\ pres' = Nil
    /\ ppackage' = Nil
    /\ precord' = Nil
    /\ todo' = <<>>
    /\ polls' = 0
    /\ api_calls' = <<>>
    /\ uploaded' = {}
    /\ observed' = Nil
    /\ perr' = Nil
    /\ intent' = Nil
    /\ pre_pending' = pending
    /\ UNCHANGED <<pending, content, env, outside_publish>>

\* Between two calls nothing is left of the call before: its locals are
\* gone and the history starts anew.
Forgotten ==
    /\ entry' = "none"
    /\ presult' = <<"None">>
    /\ pinfo' = Nil
    /\ ppackage' = Nil
    /\ pres' = Nil
    /\ precord' = Nil
    /\ todo' = <<>>
    /\ polls' = 0
    /\ api_calls' = <<>>
    /\ uploaded' = {}
    /\ observed' = Nil
    /\ perr' = Nil
    /\ pre_pending' = Nil
    /\ intent' = Nil

PublishInit ==
    /\ NotSyncing
    /\ NotServing
    /\ NotApplying
    /\ NotCalling
    /\ rcalls = 0
    /\ rresults = <<>>
    /\ env \in PublishEnvs
    /\ pending = Nil
    /\ content \in SUBSET Digests
    /\ ppc = "idle"
    /\ entry = "none"
    /\ presult = <<"None">>
    /\ pinfo = Nil
    /\ ppackage = Nil
    /\ pres = Nil
    /\ precord = Nil
    /\ todo = <<>>
    /\ pcalls = 0
    /\ polls = 0
    /\ api_calls = <<>>
    /\ uploaded = {}
    /\ observed = Nil
    /\ perr = Nil
    /\ pre_pending = Nil
    /\ intent = Nil

\* Staging: store_publish(Some(info)) puts a pending publish in the storage.
Stage(info) ==
    /\ ppc = "idle"
    /\ pending' = Some(info)
    /\ Forgotten
    /\ UNCHANGED <<content, ppc, pcalls, env, outside_publish>>

\* The explicit clear: store_publish(None) outside of publish.
Clear ==
    /\ ppc = "idle"
    /\ pending # Nil
    /\ pending' = Nil
    /\ Forgotten
    /\ UNCHANGED <<content, ppc, pcalls, env, outside_publish>>

\* publish(signing_key) is called and suspends at load_publish.
StartPublish ==
    /\ NewCall("publish")
    /\ ppc' = "load_publish"
    /\ presult' = <<"None">>
    /\ pinfo' = Nil

\* load_publish returned: an error, NotPublishing when nothing is pending,
\* or the info, with which the call goes on to resolve the namespace.
PublishLoaded(ok) ==
    /\ ppc = "load_publish"
    /\ IF ~ok THEN PReturn(<<"Other", "load_publish">>) /\ UNCHANGED pinfo
       ELSE IF pending = Nil THEN PReturn(<<"NotPublishing">>) /\ UNCHANGED pinfo
       ELSE Goto("resolve") /\ pinfo' = pending
    /\ UNCHANGED <<pending, content, entry, ppackage, precord, todo, pcalls,
                   polls, api_calls, uploaded, observed, perr, pre_pending,
                   intent, env, outside_publish>>

\* get_package_namespace_domain(&info.name) returned: its error is returned
\* with `?`; with a domain publish_with_info is called, which rejects an
\* info without entries and suspends at load_package.
Resolved ==
    /\ ppc = "resolve"
    /\ LET out == GetPackageNamespaceDomain(env)
       IN IF out[1] # "Ok" THEN PReturn(out)
          ELSE IF EntriesEmpty(Unwrap(pinfo))
          THEN Finish(<<"NothingToPublish", PublishName>>)
          ELSE Goto("load_package")
    /\ UNCHANGED <<pending, content, entry, pinfo, ppackage, precord, todo,
                   pcalls, polls, api_calls, uploaded, observed, perr,
                   pre_pending, intent, env, outside_publish>>

\* publish_with_info(signing_key, info, namespace_domain) is called.
StartPublishWithInfo(info) ==
    /\ NewCall("publish_with_info")
    /\ pinfo' = Some(info)
    /\ IF EntriesEmpty(info)
       THEN /\ ppc' = "idle"
            /\ presult' = <<"NothingToPublish", PublishName>>
       ELSE /\ ppc' = "load_package"
            /\ presult' = <<"None">>

\* load_package returned: an error, or the stored package or a new one.  A
\* publish that does not initialize and names no head goes on to the latest
\* checkpoint; any other goes on to the reconciliation.
PackageLoaded(l, fin) ==
    /\ ppc = "load_package"
    /\ LET info == Unwrap(pinfo)
       IN IF l.kind = "fail"
          THEN Finish(<<"Other", "load_package">>) /\ UNCHANGED <<ppackage, intent>>
          ELSE /\ ppackage' = Some([head |-> l.head])
               /\ intent' = Some([initializing |-> Initializing(info),
                                  head |-> l.head])
               /\ IF NeedsResync(info)
                  THEN Goto("latest_checkpoint")
                  ELSE Finalize(Initializing(info), info.head, fin)
    /\ UNCHANGED <<pending, content, entry, pinfo, precord, todo, pcalls,
                   polls, api_calls, uploaded, observed, perr, pre_pending,
                   env, outside_publish>>

\* latest_checkpoint(None) returned.
LatestCheckpoint(ok) ==
    /\ ppc = "latest_checkpoint"
    /\ IF ok THEN Goto("update_checkpoint") ELSE Finish(<<"Api">>)
    /\ api_calls' = Append(api_calls, <<"latest_checkpoint">>)
    /\ UNCHANGED <<pending, content, entry, pinfo, ppackage, precord, todo,
                   pcalls, polls, uploaded, observed, perr, pre_pending,
                   intent, env, outside_publish>>

\* update_checkpoint(None, checkpoint, [&mut package]) failed at fetch_logs
\* with the transport error e.
ResyncFetchFailed(e) ==
    /\ ppc = "update_checkpoint"
    /\ perr' = Some([site |-> "fetch_logs", e |-> e])
    /\ api_calls' = Append(api_calls, <<"fetch_logs">>)
    /\ Finish(TranslateError(e, {PublishName}))
    /\ UNCHANGED <<pending, content, entry, pinfo, ppackage, precord, todo,
                   pcalls, polls, uploaded, observed, pre_pending, intent,
                   env, outside_publish>>

\* update_checkpoint failed in any other way.
ResyncFailed ==
    /\ ppc = "update_checkpoint"
    /\ Finish(<<"PackageLogEmpty", PublishName>>)
    /\ UNCHANGED <<pending, content, entry, pinfo, ppackage, precord, todo,
                   pcalls, polls, api_calls, uploaded, observed, perr,
                   pre_pending, intent, env, outside_publish>>

\* update_checkpoint succeeded: the package has the head h, which becomes
\* info.head; then the reconciliation.
Resynced(h, fin) ==
    /\ ppc = "update_checkpoint"
    /\ ppackage' = Some([head |-> Some(h)])
    /\ pinfo' = Some([Unwrap(pinfo) EXCEPT !.head = Some(h)])
    /\ Finalize(Initializing(Unwrap(pinfo)), Some(h), fin)
    /\ UNCHANGED <<pending, content, entry, precord, todo, pcalls, polls,
                   api_calls, uploaded, observed, perr, pre_pending, intent,
                   env, outside_publish>>

\* publish_package_record answered with the record: the upload loop starts.
RecordSubmitted(resp) ==
    /\ ppc = "publish_package_record"
    /\ api_calls' = Append(api_calls, <<"publish_package_record",
                                        FinalizeRecord(Unwrap(pinfo))>>)
    /\ precord' = Some(resp)
    /\ UploadLoop(resp.missing)
    /\ UNCHANGED <<pending, content, entry, pinfo, ppackage, pcalls, polls,
                   uploaded, observed, perr, pre_pending, intent, env,
                   outside_publish>>

\* publish_package_record failed with the transport error e.
SubmitFailed(e) ==
    /\ ppc = "publish_package_record"
    /\ api_calls' = Append(api_calls, <<"publish_package_record",
                                        FinalizeRecord(Unwrap(pinfo))>>)
    /\ perr' = Some([site |-> "publish_package_record", e |-> e])
    /\ Finish(TranslateError(e, {PublishName}))
    /\ UNCHANGED <<pending, content, entry, pinfo, ppackage, precord, todo,
                   pcalls, polls, uploaded, observed, pre_pending, intent,
                   env, outside_publish>>

\* self.content.load_content(digest) returned: an error, no content
\* (ContentNotFound), or the stream to upload.
ContentLoaded(ok) ==
    /\ ppc = "load_content"
    /\ IF ~ok THEN Finish(<<"Other", "load_content">>)
       ELSE IF Head(todo).digest \notin content
       THEN Finish(<<"ContentNotFound", Head(todo).digest>>)
       ELSE Goto("upload_content")
    /\ UNCHANGED <<pending, content, entry, pinfo, ppackage, precord, todo,
                   pcalls, polls, api_calls, uploaded, observed, perr,
                   pre_pending, intent, env, outside_publish>>

\* upload_content succeeded: the loop goes on with the next pair.
Uploaded ==
    /\ ppc = "upload_content"
    /\ api_calls' = Append(api_calls, <<"upload_content", Head(todo).digest>>)
    /\ uploaded' = uploaded \cup {Head(todo).digest}
    /\ UNCHANGED precord
    /\ UploadLoop(Tail(todo))
    /\ UNCHANGED <<pending, content, entry, pinfo, ppackage, pcalls, polls,
                   observed, perr, pre_pending, intent, env, outside_publish>>

\* upload_content failed: a rejection becomes PublishRejected, any other
\* error is passed on.
UploadFailed(e) ==
    /\ ppc = "upload_content"
    /\ api_calls' = Append(api_calls, <<"upload_content", Head(todo).digest>>)
    /\ perr' = Some([site |-> "upload_content", e |-> e])
    /\ IF e.kind = "Rejection"
       THEN Finish(<<"PublishRejected", PublishName,
                     Unwrap(precord).record_id, Reason>>)
       ELSE Finish(<<"Api">>)
    /\ UNCHANGED <<pending, content, entry, pinfo, ppackage, precord, todo,
                   pcalls, polls, uploaded, observed, pre_pending, intent,
                   env, outside_publish>>

\* A publish that clears the pending publish only when it succeeded.
PublishStoredOnSuccess(ok) ==
    /\ ppc = "store_publish"
    /\ IF ~ok
       THEN PReturn(<<"Other", "store_publish">>) /\ UNCHANGED pending
       ELSE /\ pending' = IF Unwrap(pres)[1] = "Ok" THEN Nil ELSE pending
            /\ PReturn(Unwrap(pres))
    /\ UNCHANGED <<content, entry, pinfo, ppackage, precord, todo, pcalls,
                   polls, api_calls, uploaded, observed, perr, pre_pending,
                   intent, env, outside_publish>>

\* self.registry.store_publish(None).await? returned: its error, or the
\* pending publish is gone and publish returns res.
PublishStored(ok) ==
    /\ ppc = "store_publish"
    /\ IF ~ok
       THEN PReturn(<<"Other", "store_publish">>) /\ UNCHANGED pending
       ELSE /\ pending' = Nil
            /\ PReturn(Unwrap(pres))
    /\ UNCHANGED <<content, entry, pinfo, ppackage, precord, todo, pcalls,
                   polls, api_calls, uploaded, observed, perr, pre_pending,
                   intent, env, outside_publish>>

\* wait_for_publish(package, record_id, interval) is called and suspends at
\* get_package_record.
StartWait ==
    /\ NewCall("wait_for_publish")
    /\ ppc' = "get_package_record"
    /\ presult' = <<"None">>
    /\ pinfo' = Nil

\* get_package_record answered with a record in state st.
RecordPolled(st) ==
    /\ ppc = "get_package_record"
    /\ api_calls' = Append(api_calls, <<"get_package_record">>)
    /\ observed' = Some(st)
    /\ IF PollOutcome(st) = <<"sleep">> THEN Goto("sleep")
       ELSE PReturn(PollOutcome(st))
    /\ UNCHANGED <<pending, content, entry, pinfo, ppackage, precord, todo,
                   pcalls, polls, uploaded, perr, pre_pending, intent, env,
                   outside_publish>>

\* get_package_record failed with the transport error e.
PollFailed(e) ==
    /\ ppc = "get_package_record"
    /\ api_calls' = Append(api_calls, <<"get_package_record">>)
    /\ perr' = Some([site |-> "get_package_record", e |-> e])
    /\ PReturn(TranslateError(e, {PublishName}))
    /\ UNCHANGED <<pending, content, entry, pinfo, ppackage, precord, todo,
                   pcalls, polls, uploaded, observed, pre_pending, intent,
                   env, outside_publish>>

\* tokio::time::sleep(interval) is over: the next poll.
Slept ==
    /\ ppc = "sleep"
    /\ polls < MaxPolls
    /\ polls' = polls + 1
    /\ Goto("get_package_record")
    /\ UNCHANGED <<pending, content, entry, pinfo, ppackage, precord, todo,
                   pcalls, api_calls, uploaded, observed, perr, pre_pending,
                   intent, env, outside_publish>>

PublishNext ==
    \/ \E info \in PublishInfos : Stage(info)
    \/ Clear
    \/ StartPublish
    \/ \E ok \in BOOLEAN : PublishLoaded(ok)
    \/ Resolved
    \/ \E info \in PublishInfos : StartPublishWithInfo(info)
    \/ \E l \in PackageLoads, fin \in BOOLEAN : PackageLoaded(l, fin)
    \/ \E ok \in BOOLEAN : LatestCheckpoint(ok)
    \/ \E e \in TransportErrors : ResyncFetchFailed(e)
    \/ ResyncFailed
    \/ \E h \in {"h0", "h1"}, fin \in BOOLEAN : Resynced(h, fin)
    \/ \E resp \in PublishedRecords : RecordSubmitted(resp)
    \/ \E e \in TransportErrors : SubmitFailed(e)
    \/ \E ok \in BOOLEAN : ContentLoaded(ok)
    \/ Uploaded
    \/ \E e \in UploadErrors : UploadFailed(e)
    \/ \E ok \in BOOLEAN : PublishStored(ok)
    \/ StartWait
    \/ \E st \in RecordStates : RecordPolled(st)
    \/ \E e \in TransportErrors : PollFailed(e)
    \/ Slept

PublishSpec == PublishInit /\ [][PublishNext]_vars

\* get_package_record answered with a record in state st, of a server that
\* moves the record out of Processing: it answers Processing to at most
\* MaxPolls polls of a call.
RecordAnswered(st) ==
    /\ st = "Processing" => polls < MaxPolls
    /\ RecordPolled(st)

WaitNext ==
    \/ StartWait
    \/ \E st \in RecordStates : RecordAnswered(st)
    \/ \E e \in TransportErrors : PollFailed(e)
    \/ Slept

\* wait_for_publish against a server that answers every poll and lets no
\* record stay in Processing for ever; the sleep of an interval ends.
WaitSpec ==
    /\ PublishInit
    /\ [][WaitNext]_vars
    /\ WF_vars(\E st \in RecordStates : RecordAnswered(st))
    /\ WF_vars(Slept)

\* ------------------------------------------- properties of the pipeline

\* publish has returned.
PublishReturned == entry = "publish" /\ ppc = "idle" /\ presult # <<"None">>

\* What publish_with_info returned, <<"None">> while it has not.
PwiRes ==
    IF pres # Nil THEN Unwrap(pres)
    ELSE IF entry = "publish_with_info" /\ ppc = "idle" THEN presult
    ELSE <<"None">>

IsUpload(c) == c[1] = "upload_content"
IsHttp(x) == x.endpoint = "Http"

\* The upload requests the call sent, in order.
UploadCalls == SelectSeq(api_calls, IsUpload)

\* The missing contents of the answer whose first endpoint is Http, in order.
HttpMissing == SelectSeq(Unwrap(precord).missing, IsHttp)

\* C22: a publish_with_info called with an info without entries returns
\* NothingToPublish{name} at once: no package was loaded, no request was
\* sent to the registry and nothing was signed or submitted.
C22_NothingToPublish ==
    (/\ IsSome(pinfo)
     /\ Unwrap(pinfo).entries = <<>>
     /\ (entry = "publish_with_info" \/ (entry = "publish" /\ pres # Nil)))
    => /\ PwiRes = <<"NothingToPublish", PublishName>>
       /\ ppc \in {"idle", "store_publish"}
       /\ ppackage = Nil
       /\ intent = Nil
       /\ precord = Nil
       /\ api_calls = <<>>

\* publish_with_info was called with an info without entries and a head, and
\* has returned NothingToPublish.
C22_Witness ==
    /\ entry = "publish_with_info"
    /\ ppc = "idle"
    /\ IsSome(pinfo)
    /\ Unwrap(pinfo).entries = <<>>
    /\ IsSome(Unwrap(pinfo).head)
    /\ presult = <<"NothingToPublish", PublishName>>

\* C11: whenever publish returns, with success or with any error, the
\* storage holds no pending publish.
C11_PublishClearsPending ==
    PublishReturned => pending = Nil

\* C12 as stated: a publish call that fails leaves the pending publish in
\* the storage.
C12_FailedPublishKeepsPending ==
    (PublishReturned /\ presult[1] # "Ok") => pending = pre_pending

\* C12 as amended: over a publish call the pending publish stays in the
\* storage until the store_publish(None) that follows publish_with_info,
\* succeeded or failed, has succeeded; a call that fails before
\* publish_with_info is called, or whose store_publish(None) fails, leaves it.
C12_PendingUntilStorePublish ==
    entry = "publish"
    => IF ppc = "idle" /\ pres # Nil /\ presult = Unwrap(pres)
       THEN pending = Nil
       ELSE pending = pre_pending

\* A publish failed at the namespace resolution and the staged publish is
\* still pending.
C12_Witness ==
    /\ PublishReturned
    /\ presult = <<"NamespaceStateError">>
    /\ pre_pending # Nil
    /\ pending = pre_pending

\* C13: a publish whose intent is initializing while the package is known
\* with a head never gets to publish_package_record.
C13_ReconciledBeforeSubmit ==
    (/\ intent # Nil
     /\ Unwrap(intent).initializing
     /\ IsSome(Unwrap(intent).head))
    => \A i \in 1..Len(api_calls) : api_calls[i][1] # "publish_package_record"

\* C14: the uploads are the missing contents whose first endpoint is Http,
\* one after the other in the order of the answer; a content the content
\* store does not hold ends the publish with ContentNotFound and a rejected
\* upload with PublishRejected{name, record_id, reason}, both before any
\* further upload; the record id is returned after all of them succeeded.
C14_Uploads ==
    precord # Nil
    => /\ Len(UploadCalls) <= Len(HttpMissing)
       /\ \A i \in 1..Len(UploadCalls) :
            UploadCalls[i] = <<"upload_content", HttpMissing[i].digest>>
       /\ uploaded \subseteq {HttpMissing[i].digest : i \in 1..Len(HttpMissing)}
       /\ PwiRes[1] = "Ok"
          => /\ PwiRes = <<"Ok", Unwrap(precord).record_id>>
             /\ Len(UploadCalls) = Len(HttpMissing)
             /\ uploaded = {HttpMissing[i].digest : i \in 1..Len(HttpMissing)}
             /\ perr = Nil
       /\ PwiRes[1] = "ContentNotFound"
          => /\ Len(UploadCalls) < Len(HttpMissing)
             /\ PwiRes[2] = HttpMissing[Len(UploadCalls) + 1].digest
             /\ PwiRes[2] \notin content
       /\ (perr # Nil /\ Unwrap(perr).site = "upload_content")
          => /\ PwiRes = IF Unwrap(perr).e.kind = "Rejection"
                         THEN <<"PublishRejected", PublishName,
                                Unwrap(precord).record_id, Reason>>
                         ELSE <<"Api">>
             /\ UploadCalls[Len(UploadCalls)][2] \notin uploaded
       /\ PwiRes # <<"None">> => ppc \in {"store_publish", "idle"}

\* A publish returned the record id after it uploaded one missing content
\* and skipped another whose first endpoint is not Http.
C14_Witness ==
    /\ precord # Nil
    /\ PwiRes = <<"Ok", SubmittedRecordId>>
    /\ Len(Unwrap(precord).missing) = 2
    /\ Len(HttpMissing) = 1
    /\ Len(UploadCalls) = 1

\* C15: wait_for_publish ends with PackageMissingContent on Sourcing, with
\* success on Published and with PublishRejected and the reason on Rejected;
\* on Processing it sleeps and polls again; it returns success only for a
\* record it saw Published.
C15_WaitOutcome ==
    entry = "wait_for_publish"
    => /\ (ppc = "idle" /\ perr = Nil)
          => /\ observed # Nil
             /\ presult =
                  CASE Unwrap(observed) = "Sourcing" -> <<"PackageMissingContent">>
                    [] Unwrap(observed) = "Published" -> <<"Ok">>
                    [] Unwrap(observed) = "Rejected" ->
                         <<"PublishRejected", PublishName, SubmittedRecordId,
                           Reason>>
                    [] OTHER -> <<"never">>
       /\ ppc = "sleep"
          => observed = Some("Processing") /\ Len(api_calls) = polls + 1
       /\ ppc = "get_package_record" => Len(api_calls) = polls
       /\ presult = <<"Ok">> => observed = Some("Published")

\* A wait returned success after it slept on Processing and polled again.
C15_Witness ==
    /\ entry = "wait_for_publish"
    /\ ppc = "idle"
    /\ polls >= 1
    /\ observed = Some("Published")
    /\ presult = <<"Ok">>

\* C20: LogNotFound(id) from fetch_logs, publish_package_record or
\* get_package_record is reported as PackageDoesNotExist{name} exactly when
\* id is the log of the package of the call; LogNotFound of another log and
\* every other transport error are reported as Api.
C20_LogNotFoundTranslated ==
    (perr # Nil /\ Unwrap(perr).site \in
        {"fetch_logs", "publish_package_record", "get_package_record"})
    => (IF entry = "wait_for_publish" THEN presult ELSE PwiRes) =
          IF Unwrap(perr).e.kind = "LogNotFound" /\ Unwrap(perr).e.id = PublishName
          THEN <<"PackageDoesNotExist", PublishName>>
          ELSE <<"Api">>

\* publish_package_record answered LogNotFound for the log of the package
\* and the publish ended with PackageDoesNotExist.
C20_Witness ==
    /\ perr = Some([site |-> "publish_package_record",
                    e |-> [kind |-> "LogNotFound", id |-> PublishName]])
    /\ PwiRes = <<"PackageDoesNotExist", PublishName>>

\* Calls of the resolver against one environment.
MaxCalls == 2

ResolveInit ==
    /\ NotSyncing
    /\ NotInPublish
    /\ NotServing
    /\ NotApplying
    /\ NotCalling
    /\ env \in Envs
    /\ rcalls = 0
    /\ rresults = <<>>

\* One call of get_package_namespace_domain for a name of the namespace.
Resolve ==
    /\ rcalls < MaxCalls
    /\ rcalls' = rcalls + 1
    /\ rresults' = Append(rresults, GetPackageNamespaceDomain(env))
    /\ UNCHANGED <<env, syncing, publishing, serving, applying, calling>>

ResolveNext == Resolve

ResolveSpec == ResolveInit /\ [][ResolveNext]_vars

\* The walk met no unreadable entry and the current directory is known.
WalkOk == env.cwd /\ \A i \in 1..Len(env.files) : env.files[i].kind = "file"

\* C17: whenever the stored default operator state marks the namespace as
\* Imported { registry: R }, every call returns R, whatever the .warg.json
\* files and the namespace map hold.
C17_ImportWins ==
    (env.operator.kind = "present" /\ env.operator.state = "Imported")
    => \A i \in 1..Len(rresults) : rresults[i] = <<"Ok", Some(ImportedRegistry)>>

\* A call returned the imported registry although the deepest .warg.json and
\* the namespace map both name another domain.
C17_Witness ==
    /\ rresults # <<>>
    /\ rresults[1] = <<"Ok", Some(ImportedRegistry)>>
    /\ env.namespace_map.value = Some("M")
    /\ WalkOk
    /\ IsSome(DeepestConfig(env.files))
    /\ Unwrap(DeepestConfig(env.files)).content.value = Some("F1")

\* C18: when the operator step yields no import (no operator stored, or the
\* namespace Defined or unknown), a call returns what the deepest .warg.json
\* maps the namespace to, if there is such a file and it holds the
\* namespace, and otherwise the value of the namespace map, or None.
C18_FileStepAfterOperator ==
    (/\ env.operator.kind \in {"absent", "present"}
     /\ env.operator.state \notin {"Imported", "Invalid"}
     /\ WalkOk
     /\ env.namespace_map.kind # "fail")
    => LET c == DeepestConfig(env.files)
       IN \A i \in 1..Len(rresults) :
            IF IsSome(c) /\ Unwrap(c).content.read = "ok"
                         /\ IsSome(Unwrap(c).content.value)
            THEN rresults[i] = <<"Ok", Unwrap(c).content.value>>
            ELSE (c = Nil \/ Unwrap(c).content.read = "ok")
                 => rresults[i] = <<"Ok", env.namespace_map.value>>

C21_NoPanic ==
    \A i \in 1..Len(rresults) : rresults[i] # <<"panic">>


\* The intent of the call names a head or initializes the package.
HeadSettled(info) == IsSome(info.head) \/ Initializing(info)

\* The call has asked for the latest checkpoint.
Resynchronized(calls) ==
    \E i \in 1..Len(calls) : calls[i] = <<"latest_checkpoint">>

\* C31: the record publish_with_info submits has prev = info.head.  An
\* intent that does not initialize and names no head gets to the submission
\* only through latest_checkpoint and update_checkpoint of the one package,
\* and info.head is then the head of the package after the synchronization;
\* an intent that names a head or initializes never asks for the latest
\* checkpoint and is submitted as it was given.
C31_PrevIsHead ==
    [][/\ (ppc # "publish_package_record" /\ ppc' = "publish_package_record")
          => IF HeadSettled(Unwrap(pinfo))
             THEN /\ ppc = "load_package"
                  /\ pinfo' = pinfo
                  /\ ~Resynchronized(api_calls')
             ELSE /\ ppc = "update_checkpoint"
                  /\ Resynchronized(api_calls)
                  /\ Unwrap(pinfo').head = Unwrap(ppackage').head
                  /\ IsSome(Unwrap(pinfo').head)
       /\ ppc' \in {"latest_checkpoint", "update_checkpoint"}
          => ~HeadSettled(Unwrap(pinfo'))
       /\ (ppc = "publish_package_record" /\ api_calls' # api_calls)
          => LET sent == api_calls'[Len(api_calls')]
             IN  /\ sent[1] = "publish_package_record"
                 /\ sent[2].prev = Unwrap(pinfo).head
                 /\ Resynchronized(api_calls)
                    => sent[2].prev = Unwrap(ppackage).head]_vars

\* A record was submitted after a synchronization that moved the head of the
\* package: its prev is the new head, not the one loaded from the storage.
C31_Witness ==
    /\ Resynchronized(api_calls)
    /\ intent # Nil
    /\ Unwrap(intent).head = Some("h0")
    /\ \E i \in 1..Len(api_calls) :
          /\ api_calls[i][1] = "publish_package_record"
          /\ api_calls[i][2].prev = Some("h1")
          /\ Unwrap(ppackage).head = Some("h1")

\* wait_for_publish is running.
Waiting == entry = "wait_for_publish" /\ ppc # "idle"

\* wait_for_publish has returned.
WaitReturned ==
    entry = "wait_for_publish" /\ ppc = "idle" /\ presult # <<"None">>

\* C34: against a server that answers every poll and moves the record out of
\* Processing, wait_for_publish returns.  It returns the outcome of the
\* first state other than Processing that it observed, or the error of a
\* poll that failed; it polls once at the start and once after each sleep,
\* and it sleeps only after it observed Processing.
C34_WaitReturns ==
    /\ Waiting ~> WaitReturned
    /\ [](WaitReturned =>
            IF perr = Nil
            THEN /\ observed \in {Some(st) : st \in RecordStates \ {"Processing"}}
                 /\ presult = PollOutcome(Unwrap(observed))
                 /\ Len(api_calls) = polls + 1
            ELSE presult = TranslateError(Unwrap(perr).e, {PublishName}))
    /\ []((Waiting /\ ppc = "sleep")
            => (observed = Some("Processing") /\ Len(api_calls) = polls + 1))
    /\ []((Waiting /\ ppc = "get_package_record") => Len(api_calls) = polls)

\* The wait returned success after as many sleeps as the server allows.
C34_Witness ==
    /\ WaitReturned
    /\ polls = MaxPolls
    /\ observed = Some("Published")
    /\ presult = <<"Ok">>

\* C33: an initializing intent for a package that load_package returned
\* with a head is rejected with CannotInitializePackage, whatever else
\* happens in the call, and never waits for publish_package_record.
C33_CannotInitializeKnownPackage ==
    (/\ intent # Nil
     /\ Unwrap(intent).initializing
     /\ IsSome(Unwrap(intent).head))
    => /\ ppc # "publish_package_record"
       /\ pres # Nil
          => Unwrap(pres) = <<"CannotInitializePackage", PublishName>>
       /\ (entry = "publish_with_info" /\ ppc = "idle")
          => presult = <<"CannotInitializePackage", PublishName>>

\* ------------------------------------------------ server: MemoryDataStore

\* How many records of the package log and of the operator log are ever
\* submitted.
MaxRecords == 2
MaxOperatorRecords == 1

\* How many checkpoints are ever stored.
MaxCheckpoints == 2

\* The logs of the server: the operator log and the log of package "a".
ServerLogs == {OperatorLog, PublishName}

\* The envelopes submitted to log l.  The record id is the hash of the
\* envelope, so an id stands for one envelope.
ServerRecords(l) ==
    {[reg |-> None, log |-> l, seq |-> n] :
        n \in 1..(IF l = OperatorLog THEN MaxOperatorRecords ELSE MaxRecords)}

\* The contents of a package record the server may lack when it is stored.
MissingDigests == {"d1"}

ServerRecordIds == {RecordId(rec) : rec \in ServerRecords(OperatorLog) \cup ServerRecords(PublishName)}

\* The ids of the checkpoints handed to store_checkpoint, in the order they
\* are made.
CheckpointIds == <<"c1", "c2">>

\* The reason the policy gives to reject_*_record, and the text of the
\* validator's error.
RejectReasons == {"policy"}
ValidationError == "validation failed"

\* HashMap::insert.
MapInsert(m, k, v) == [x \in DOMAIN m \cup {k} |-> IF x = k THEN v ELSE m[x]]

\* Log::default().
DefaultLog == [validator |-> EmptyState, entries |-> <<>>, checkpoint_indices |-> <<>>]

\* RecordStatus::Pending(PendingRecord::Operator | Package).
PendingOperator(record) ==
    [st |-> "Pending", kind |-> "Operator", record |-> Some(record), missing |-> {}]
PendingPackage(record, missing) ==
    [st |-> "Pending", kind |-> "Package", record |-> Some(record), missing |-> missing]

\* RecordStatus::Rejected(RejectedRecord::Operator | Package).
RejectedRecord(kind, record, reason) ==
    [st |-> "Rejected", kind |-> kind, record |-> record, reason |-> reason]

\* RecordStatus::Validated(Record { index, checkpoint_index }).
ValidatedRecord(index, checkpoint_index) ==
    [st |-> "Validated", index |-> index, checkpoint_index |-> checkpoint_index]

\* records.get(log_id).ok_or(LogNotFound)?.get(record_id).ok_or(RecordNotFound)?
Locate(log_id, record_id) ==
    IF log_id \notin DOMAIN records THEN <<"LogNotFound", log_id>>
    ELSE IF record_id \notin DOMAIN records[log_id] THEN <<"RecordNotFound", record_id>>
    ELSE <<"Ok">>

\* records.entry(log_id).or_default().insert(record_id, status): the status
\* is written whether or not the key was there.
InsertStatus(log_id, record_id, status) ==
    MapInsert(records, log_id,
        MapInsert(IF log_id \in DOMAIN records THEN records[log_id] ELSE EmptyMap,
                  record_id, status))

\* *status = ...
SetStatus(log_id, record_id, status) ==
    [records EXCEPT ![log_id] = MapInsert(@, record_id, status)]

\* assert!(prev.is_none()): the call panics after the insert when the record
\* id was already in the map.
StoreResult(log_id, record_id) ==
    IF log_id \in DOMAIN records /\ record_id \in DOMAIN records[log_id]
    THEN <<"panic">>
    ELSE <<"Ok">>

outside_serving == <<syncing, resolving, publishing, applying, calling>>

\* store_operator_record(log_id, record_id, record).
StoreOperatorRecord(record) ==
    /\ records' = InsertStatus(record.log, RecordId(record), PendingOperator(record))
    /\ sret' = StoreResult(record.log, RecordId(record))
    /\ UNCHANGED <<operators, spackages, checkpoints>>
    /\ UNCHANGED outside_serving

\* store_package_record(log_id, package_id, record_id, record, missing).
StorePackageRecord(record, missing) ==
    /\ records' = InsertStatus(record.log, RecordId(record), PendingPackage(record, missing))
    /\ sret' = StoreResult(record.log, RecordId(record))
    /\ UNCHANGED <<operators, spackages, checkpoints>>
    /\ UNCHANGED outside_serving

\* A reject that does not look at the status of the record.
RejectAnyStatus(kind, log_id, record_id, reason) ==
    LET found == Locate(log_id, record_id) IN
    IF found # <<"Ok">> THEN [ret |-> found, records |-> records]
    ELSE [ret |-> <<"Ok">>,
          records |-> SetStatus(log_id, record_id,
                         RejectedRecord(kind, record_id, reason))]

\* The body shared by reject_operator_record and reject_package_record: what
\* the call returns and the records map it leaves.
Reject(kind, log_id, record_id, reason) ==
    LET found == Locate(log_id, record_id) IN
    IF found # <<"Ok">> THEN [ret |-> found, records |-> records]
    ELSE LET status == records[log_id][record_id] IN
         IF status.st = "Pending" /\ status.kind = kind
         THEN [ret |-> <<"Ok">>,
               records |-> SetStatus(log_id, record_id,
                              RejectedRecord(kind, Unwrap(status.record), reason))]
         ELSE [ret |-> <<"RecordNotPending", record_id>>, records |-> records]

\* reject_operator_record(log_id, record_id, reason).
RejectOperatorRecord(log_id, record_id, reason) ==
    /\ records' = Reject("Operator", log_id, record_id, reason).records
    /\ sret' = Reject("Operator", log_id, record_id, reason).ret
    /\ UNCHANGED <<operators, spackages, checkpoints>>
    /\ UNCHANGED outside_serving

\* reject_package_record(log_id, record_id, reason).
RejectPackageRecord(log_id, record_id, reason) ==
    /\ records' = Reject("Package", log_id, record_id, reason).records
    /\ sret' = Reject("Package", log_id, record_id, reason).ret
    /\ UNCHANGED <<operators, spackages, checkpoints>>
    /\ UNCHANGED outside_serving

\* The body shared by validate_operator_record and validate_package_record
\* over the logs of its kind: what the call returns, and the logs and the
\* records map it leaves.
Validate(kind, logs, log_id, record_id) ==
    LET found == Locate(log_id, record_id) IN
    IF found # <<"Ok">> THEN [ret |-> found, logs |-> logs, records |-> records]
    ELSE LET status == records[log_id][record_id] IN
         IF status.st = "Pending" /\ status.kind = kind
         THEN LET record == Unwrap(status.record)
                  log == IF log_id \in DOMAIN logs THEN logs[log_id] ELSE DefaultLog
              IN  IF ValidateOk(log.validator, record)
                  THEN [ret |-> <<"Ok">>,
                        logs |-> MapInsert(logs, log_id,
                                    [log EXCEPT !.validator = Validated(log.validator, record),
                                                !.entries = Append(log.entries, record)]),
                        records |-> SetStatus(log_id, record_id,
                                        ValidatedRecord(Len(log.entries), Nil))]
                  ELSE [ret |-> <<"Validation", ValidationError>>,
                        logs |-> MapInsert(logs, log_id, log),
                        records |-> SetStatus(log_id, record_id,
                                        RejectedRecord(kind, record, ValidationError))]
         ELSE [ret |-> <<"RecordNotPending", record_id>>, logs |-> logs, records |-> records]

\* validate_operator_record(log_id, record_id).
ValidateOperatorRecord(log_id, record_id) ==
    /\ operators' = Validate("Operator", operators, log_id, record_id).logs
    /\ records' = Validate("Operator", operators, log_id, record_id).records
    /\ sret' = Validate("Operator", operators, log_id, record_id).ret
    /\ UNCHANGED <<spackages, checkpoints>>
    /\ UNCHANGED outside_serving

\* validate_package_record(log_id, record_id).
ValidatePackageRecord(log_id, record_id) ==
    /\ spackages' = Validate("Package", spackages, log_id, record_id).logs
    /\ records' = Validate("Package", spackages, log_id, record_id).records
    /\ sret' = Validate("Package", spackages, log_id, record_id).ret
    /\ UNCHANGED <<operators, checkpoints>>
    /\ UNCHANGED outside_serving

\* What is_content_missing(log_id, record_id, digest) returns over the
\* records map recs.
ContentMissing(recs, log_id, record_id, digest) ==
    IF log_id \notin DOMAIN recs THEN <<"LogNotFound", log_id>>
    ELSE IF record_id \notin DOMAIN recs[log_id] THEN <<"RecordNotFound", record_id>>
    ELSE LET status == recs[log_id][record_id] IN
         IF status.st # "Pending" THEN <<"RecordNotPending", record_id>>
         ELSE IF status.kind = "Operator" THEN <<"Ok", FALSE>>
         ELSE <<"Ok", digest \in status.missing>>

\* is_content_missing(log_id, record_id, digest).
IsContentMissing(log_id, record_id, digest) ==
    /\ sret' = ContentMissing(records, log_id, record_id, digest)
    /\ UNCHANGED <<operators, spackages, checkpoints, records>>
    /\ UNCHANGED outside_serving

\* A set_content_present without the test for an empty missing set.
SetContentPresentUnchecked(log_id, record_id, digest) ==
    LET found == Locate(log_id, record_id) IN
    /\ IF found # <<"Ok">>
       THEN sret' = found /\ UNCHANGED records
       ELSE LET status == records[log_id][record_id] IN
            IF status.st # "Pending"
            THEN sret' = <<"RecordNotPending", record_id>> /\ UNCHANGED records
            ELSE IF status.kind = "Operator"
            THEN sret' = <<"Ok", FALSE>> /\ UNCHANGED records
            ELSE /\ records' = SetStatus(log_id, record_id,
                                  [status EXCEPT !.missing = @ \ {digest}])
                 /\ sret' = <<"Ok", status.missing \ {digest} = {}>>
    /\ UNCHANGED <<operators, spackages, checkpoints>>
    /\ UNCHANGED outside_serving

\* set_content_present(log_id, record_id, digest).
SetContentPresent(log_id, record_id, digest) ==
    LET found == Locate(log_id, record_id) IN
    /\ IF found # <<"Ok">>
       THEN sret' = found /\ UNCHANGED records
       ELSE LET status == records[log_id][record_id] IN
            IF status.st # "Pending"
            THEN sret' = <<"RecordNotPending", record_id>> /\ UNCHANGED records
            ELSE IF status.kind = "Operator" \/ status.missing = {}
            THEN sret' = <<"Ok", FALSE>> /\ UNCHANGED records
            ELSE /\ records' = SetStatus(log_id, record_id,
                                  [status EXCEPT !.missing = @ \ {digest}])
                 /\ sret' = <<"Ok", status.missing \ {digest} = {}>>
    /\ UNCHANGED <<operators, spackages, checkpoints>>
    /\ UNCHANGED outside_serving

\* LogLeaf { log_id, record_id }.
LogLeaves ==
    {[log_id |-> rec.log, record_id |-> RecordId(rec)] :
        rec \in ServerRecords(OperatorLog) \cup ServerRecords(PublishName)}

\* The records validated since the last checkpoint, which are the leaves a
\* new checkpoint adds.
NewLeaves ==
    {[log_id |-> l, record_id |-> r] :
        <<l, r>> \in {x \in ServerLogs \X ServerRecordIds :
                        /\ Locate(x[1], x[2]) = <<"Ok">>
                        /\ records[x[1]][x[2]].st = "Validated"
                        /\ records[x[1]][x[2]].checkpoint_index = Nil}}

\* log.checkpoint_indices.push(index), once for every leaf of the log.
RECURSIVE PushIndex(_, _, _)
PushIndex(logs, ls, index) ==
    IF ls = {} THEN logs
    ELSE LET leaf == CHOOSE x \in ls : TRUE IN
         PushIndex(
            IF leaf.log_id \in DOMAIN logs
            THEN [logs EXCEPT ![leaf.log_id].checkpoint_indices = Append(@, index)]
            ELSE logs,
            ls \ {leaf}, index)

\* record.checkpoint_index = Some(index), for every leaf.
RECURSIVE MarkLeaves(_, _, _)
MarkLeaves(recs, ls, index) ==
    IF ls = {} THEN recs
    ELSE LET leaf == CHOOSE x \in ls : TRUE IN
         MarkLeaves(
            [recs EXCEPT ![leaf.log_id][leaf.record_id].checkpoint_index = Some(index)],
            ls \ {leaf}, index)

\* store_checkpoint(checkpoint_id, checkpoint, participants).  A leaf of a
\* log in operators is pushed there, otherwise in packages.
ServerStoreCheckpoint(checkpoint_id, participants) ==
    LET index == Len(checkpoints) IN
    /\ Len(checkpoints) < MaxCheckpoints
    /\ checkpoint_id = CheckpointIds[Len(checkpoints) + 1]
    /\ participants \subseteq NewLeaves
    /\ checkpoints' = Append(checkpoints, checkpoint_id)
    /\ operators' = PushIndex(operators, participants, index)
    /\ spackages' = PushIndex(spackages,
                        {p \in participants : p.log_id \notin DOMAIN operators}, index)
    /\ records' = MarkLeaves(records, participants, index)
    /\ sret' = <<"Ok">>
    /\ UNCHANGED outside_serving

\* The body shared by get_operator_record and get_package_record over the
\* logs of its kind: Record { status, envelope, checkpoint } or the error.
GetRecord(kind, logs, log_id, record_id) ==
    LET found == Locate(log_id, record_id) IN
    IF found # <<"Ok">> THEN found
    ELSE LET status == records[log_id][record_id] IN
         IF status.st = "Pending" /\ status.kind = kind
         THEN <<"Ok", [status |-> <<"Pending">>, envelope |-> Unwrap(status.record),
                       checkpoint |-> Nil]>>
         ELSE IF status.st = "Rejected" /\ status.kind = kind
         THEN <<"Ok", [status |-> <<"Rejected", status.reason>>, envelope |-> status.record,
                       checkpoint |-> Nil]>>
         ELSE IF status.st = "Validated"
         THEN IF log_id \notin DOMAIN logs THEN <<"LogNotFound", log_id>>
              ELSE IF status.index >= Len(logs[log_id].entries) THEN <<"panic">>
              ELSE LET checkpoint ==
                           IF IsSome(status.checkpoint_index)
                           THEN Some(checkpoints[Unwrap(status.checkpoint_index) + 1])
                           ELSE Nil
                   IN  <<"Ok", [status |-> IF IsSome(checkpoint) THEN <<"Published">>
                                                                 ELSE <<"Validated">>,
                                envelope |-> logs[log_id].entries[status.index + 1],
                                checkpoint |-> checkpoint]>>
         ELSE <<"RecordNotFound", record_id>>

\* get_operator_record(log_id, record_id).
GetOperatorRecord(log_id, record_id) ==
    /\ sret' = GetRecord("Operator", operators, log_id, record_id)
    /\ UNCHANGED <<operators, spackages, checkpoints, records>>
    /\ UNCHANGED outside_serving

\* get_package_record(log_id, record_id).
GetPackageRecord(log_id, record_id) ==
    /\ sret' = GetRecord("Package", spackages, log_id, record_id)
    /\ UNCHANGED <<operators, spackages, checkpoints, records>>
    /\ UNCHANGED outside_serving

\* checkpoints.values().last().unwrap() over the checkpoints stored.
LastCheckpoint(stored) ==
    IF stored = <<>> THEN <<"panic">> ELSE <<"Ok", stored[Len(stored)]>>

\* get_latest_checkpoint().
GetLatestCheckpoint ==
    /\ sret' = LastCheckpoint(checkpoints)
    /\ UNCHANGED <<operators, spackages, checkpoints, records>>
    /\ UNCHANGED outside_serving

\* The largest limit of a get_*_records call.
MaxLimit == 2

\* A checkpoint id that is never stored.
UnknownCheckpoint == "cx"

\* The checkpoint ids a call may name.
AskedCheckpoints == {CheckpointIds[i] : i \in 1..MaxCheckpoints} \cup {UnknownCheckpoint}

\* checkpoints.get_index_of(checkpoint_id).
IndexOfCheckpoint(checkpoint_id) ==
    IF \E i \in 1..Len(checkpoints) : checkpoints[i] = checkpoint_id
    THEN Some((CHOOSE i \in 1..Len(checkpoints) : checkpoints[i] = checkpoint_id) - 1)
    ELSE Nil

\* get_records_before_checkpoint(indices, checkpoint_index).
RecordsBeforeCheckpoint(indices, checkpoint_index) ==
    Cardinality({i \in 1..Len(indices) : indices[i] <= checkpoint_index})

\* The body shared by get_operator_records and get_package_records over the
\* logs of its kind.  state.records[log_id][since] panics on a record that
\* is not there, unreachable!() on one that is not Validated, and the slice
\* entries[start..min(end, start + limit)] when start is beyond its end.
GetRecords(logs, log_id, checkpoint_id, since, limit) ==
    IF log_id \notin DOMAIN logs THEN <<"LogNotFound", log_id>>
    ELSE IF IndexOfCheckpoint(checkpoint_id) = Nil
    THEN <<"CheckpointNotFound", checkpoint_id>>
    ELSE IF /\ IsSome(since)
            /\ \/ Locate(log_id, Unwrap(since)) # <<"Ok">>
               \/ records[log_id][Unwrap(since)].st # "Validated"
    THEN <<"panic">>
    ELSE LET log == logs[log_id]
             start == IF IsSome(since) THEN records[log_id][Unwrap(since)].index + 1 ELSE 0
             end == RecordsBeforeCheckpoint(log.checkpoint_indices,
                                            Unwrap(IndexOfCheckpoint(checkpoint_id)))
             stop == IF end < start + limit THEN end ELSE start + limit
         IN  IF start > stop \/ stop > Len(log.entries) THEN <<"panic">>
             ELSE <<"Ok", SubSeq(log.entries, start + 1, stop)>>

\* get_operator_records(log_id, checkpoint_id, since, limit).
GetOperatorRecords(log_id, checkpoint_id, since, limit) ==
    /\ sret' = GetRecords(operators, log_id, checkpoint_id, since, limit)
    /\ UNCHANGED <<operators, spackages, checkpoints, records>>
    /\ UNCHANGED outside_serving

\* get_package_records(log_id, checkpoint_id, since, limit).
GetPackageRecords(log_id, checkpoint_id, since, limit) ==
    /\ sret' = GetRecords(spackages, log_id, checkpoint_id, since, limit)
    /\ UNCHANGED <<operators, spackages, checkpoints, records>>
    /\ UNCHANGED outside_serving

ServerInit ==
    /\ NotSyncing
    /\ NotResolving
    /\ NotInPublish
    /\ NotServing
    /\ NotApplying
    /\ NotCalling

ServerNext ==
    \/ \E record \in ServerRecords(OperatorLog) : StoreOperatorRecord(record)
    \/ \E record \in ServerRecords(PublishName), missing \in SUBSET MissingDigests :
          StorePackageRecord(record, missing)
    \/ \E l \in ServerLogs, r \in ServerRecordIds, reason \in RejectReasons :
          RejectOperatorRecord(l, r, reason)
    \/ \E l \in ServerLogs, r \in ServerRecordIds, reason \in RejectReasons :
          RejectPackageRecord(l, r, reason)
    \/ \E l \in ServerLogs, r \in ServerRecordIds : ValidateOperatorRecord(l, r)
    \/ \E l \in ServerLogs, r \in ServerRecordIds : ValidatePackageRecord(l, r)
    \/ \E l \in ServerLogs, r \in ServerRecordIds, d \in Digests :
          SetContentPresent(l, r, d)
    \/ \E c \in {CheckpointIds[i] : i \in 1..MaxCheckpoints}, participants \in SUBSET LogLeaves :
          ServerStoreCheckpoint(c, participants)
    \/ \E l \in ServerLogs, r \in ServerRecordIds : GetOperatorRecord(l, r)
    \/ \E l \in ServerLogs, r \in ServerRecordIds : GetPackageRecord(l, r)
    \/ GetLatestCheckpoint

ServerSpec == ServerInit /\ [][ServerNext]_vars

\* A data store in which every record was stored once and is Pending, the
\* package records with any set of missing contents.
PendingInit ==
    /\ NotSyncing
    /\ NotResolving
    /\ NotInPublish
    /\ NotApplying
    /\ NotCalling
    /\ operators = EmptyMap
    /\ spackages = EmptyMap
    /\ checkpoints = <<>>
    /\ sret = <<"None">>
    /\ \E missing \in [ServerRecords(PublishName) -> SUBSET Digests] :
          records =
            [l \in ServerLogs |->
               IF l = OperatorLog
               THEN [r \in {RecordId(rec) : rec \in ServerRecords(OperatorLog)} |->
                        PendingOperator(r)]
               ELSE [r \in {RecordId(rec) : rec \in ServerRecords(PublishName)} |->
                        PendingPackage(r, missing[r])]]

\* The calls on pending records, in any order: every call holds the write
\* lock (the read lock for is_content_missing) from its first statement to
\* its return.
PendingNext ==
    \/ \E l \in ServerLogs, r \in ServerRecordIds, reason \in RejectReasons :
          RejectOperatorRecord(l, r, reason)
    \/ \E l \in ServerLogs, r \in ServerRecordIds, reason \in RejectReasons :
          RejectPackageRecord(l, r, reason)
    \/ \E l \in ServerLogs, r \in ServerRecordIds : ValidateOperatorRecord(l, r)
    \/ \E l \in ServerLogs, r \in ServerRecordIds : ValidatePackageRecord(l, r)
    \/ \E l \in ServerLogs, r \in ServerRecordIds, d \in Digests :
          SetContentPresent(l, r, d)
    \/ \E l \in ServerLogs, r \in ServerRecordIds, d \in Digests :
          IsContentMissing(l, r, d)

PendingSpec == PendingInit /\ [][PendingNext]_vars

\* The values of the `since` argument: none, or a record id.
SinceValues == {Nil} \cup {Some(r) : r \in ServerRecordIds}

\* Records are stored and validated, checkpoints are stored, and the logs
\* are read with get_*_records.
RecordsNext ==
    \/ \E record \in ServerRecords(OperatorLog) : StoreOperatorRecord(record)
    \/ \E record \in ServerRecords(PublishName), missing \in SUBSET MissingDigests :
          StorePackageRecord(record, missing)
    \/ \E l \in ServerLogs, r \in ServerRecordIds : ValidateOperatorRecord(l, r)
    \/ \E l \in ServerLogs, r \in ServerRecordIds : ValidatePackageRecord(l, r)
    \/ \E c \in {CheckpointIds[i] : i \in 1..MaxCheckpoints}, participants \in SUBSET LogLeaves :
          ServerStoreCheckpoint(c, participants)
    \/ \E l \in ServerLogs, c \in AskedCheckpoints, since \in SinceValues, limit \in 0..MaxLimit :
          GetOperatorRecords(l, c, since, limit)
    \/ \E l \in ServerLogs, c \in AskedCheckpoints, since \in SinceValues, limit \in 0..MaxLimit :
          GetPackageRecords(l, c, since, limit)

RecordsSpec == ServerInit /\ [][RecordsNext]_vars

\* ---------------------------------------------- properties of the server

\* What get_package_record answers for a record it reports Published.
PublishedAs(log_id, record_id, envelope) ==
    LET res == GetRecord("Package", spackages, log_id, record_id) IN
    /\ res[1] = "Ok"
    /\ res[2].status = <<"Published">>
    /\ res[2].envelope = envelope

\* C16: a package record that get_package_record reports Published is
\* reported Published, with the same envelope, after every later call on the
\* data store, hence at every later time.
C16_PublishedStays ==
    [][\A record \in ServerRecords(PublishName) :
          PublishedAs(record.log, RecordId(record), record)
              => PublishedAs(record.log, RecordId(record), record)']_vars

\* The status of a record in the records map recs: "None" when it has none.
StatusOf(recs, log_id, record_id) ==
    IF log_id \in DOMAIN recs /\ record_id \in DOMAIN recs[log_id]
    THEN recs[log_id][record_id].st
    ELSE "None"

\* The step leaves the data store as it was.
StoreUnchanged == UNCHANGED <<operators, spackages, checkpoints, records>>

\* The record is Pending and of the kind the call is about.
PendingOf(kind, log_id, record_id) ==
    /\ StatusOf(records, log_id, record_id) = "Pending"
    /\ records[log_id][record_id].kind = kind

\* What a call of reject_*_record (how = "reject") or validate_*_record
\* (how = "validate") on a record that is not Pending of the kind of the
\* call does: LogNotFound, RecordNotFound or RecordNotPending, and nothing
\* else; on a Pending one the record ends Rejected or Validated.
Settles(how, kind, log_id, record_id) ==
    IF log_id \notin DOMAIN records
    THEN sret' = <<"LogNotFound", log_id>> /\ StoreUnchanged
    ELSE IF record_id \notin DOMAIN records[log_id]
    THEN sret' = <<"RecordNotFound", record_id>> /\ StoreUnchanged
    ELSE IF ~PendingOf(kind, log_id, record_id)
    THEN sret' = <<"RecordNotPending", record_id>> /\ StoreUnchanged
    ELSE IF how = "reject"
    THEN /\ sret' = <<"Ok">>
         /\ StatusOf(records', log_id, record_id) = "Rejected"
    ELSE \/ /\ sret' = <<"Ok">>
            /\ StatusOf(records', log_id, record_id) = "Validated"
         \/ /\ sret' = <<"Validation", ValidationError>>
            /\ StatusOf(records', log_id, record_id) = "Rejected"

\* C35: the status of a record moves one way only: from none to Pending,
\* from Pending to Rejected or Validated, and never on from there.  reject
\* and validate on an unknown log return LogNotFound, on an unknown record
\* RecordNotFound, on a record that is not Pending of their kind
\* RecordNotPending, and leave the store unchanged in each of these cases.
C35_OneWayStatus ==
    [][/\ \A l \in ServerLogs, r \in ServerRecordIds :
             LET before == StatusOf(records, l, r)
                 after == StatusOf(records', l, r)
             IN  /\ before = "None" => after \in {"None", "Pending"}
                 /\ before = "Pending" => after \in {"Pending", "Rejected", "Validated"}
                 /\ before = "Rejected" => after = "Rejected"
                 /\ before = "Validated" => after = "Validated"
       /\ \A l \in ServerLogs, r \in ServerRecordIds :
             /\ \A reason \in RejectReasons :
                   /\ RejectOperatorRecord(l, r, reason)
                      => Settles("reject", "Operator", l, r)
                   /\ RejectPackageRecord(l, r, reason)
                      => Settles("reject", "Package", l, r)
             /\ ValidateOperatorRecord(l, r) => Settles("validate", "Operator", l, r)
             /\ ValidatePackageRecord(l, r) => Settles("validate", "Package", l, r)]_vars

\* The entries of log l in the logs of its kind; none when the log is not
\* there.
EntriesOf(ops, pkgs, l) ==
    IF l \in DOMAIN ops THEN ops[l].entries
    ELSE IF l \in DOMAIN pkgs THEN pkgs[l].entries
    ELSE <<>>

\* The record ids that are Validated in log l.
ValidatedIds(l) ==
    {r \in ServerRecordIds : StatusOf(records, l, r) = "Validated"}

\* The Validated records of log l and the positions of its entries match
\* one to one, and no Rejected record is among the entries.
EntriesMatch(l) ==
    LET entries == EntriesOf(operators, spackages, l) IN
    /\ \A r \in ValidatedIds(l) :
          /\ records[l][r].index < Len(entries)
          /\ RecordId(entries[records[l][r].index + 1]) = r
    /\ \A r1, r2 \in ValidatedIds(l) :
          records[l][r1].index = records[l][r2].index => r1 = r2
    /\ \A i \in 1..Len(entries) :
          \E r \in ValidatedIds(l) : records[l][r].index = i - 1
    /\ \A r \in ServerRecordIds :
          StatusOf(records, l, r) = "Rejected"
          => \A i \in 1..Len(entries) : RecordId(entries[i]) # r

\* s is t or t with one more element at its end.
GrowsByAtMostOne(s, t) ==
    \/ t = s
    \/ Len(t) = Len(s) + 1 /\ SubSeq(t, 1, Len(s)) = s

\* C36: in every state of the data store the Validated records of a log
\* and the positions of its entries match one to one: each Validated record
\* has an index of its own below the number of entries, the entry there is
\* its envelope, and every entry is the one of a Validated record.  The
\* entries only grow, by the record a validation accepted; a record the
\* validator refused is Rejected with the text of the error and is not
\* among the entries.
C36_EntriesMatchValidated ==
    [][\A l \in ServerLogs :
          /\ EntriesMatch(l)'
          /\ GrowsByAtMostOne(EntriesOf(operators, spackages, l),
                              EntriesOf(operators', spackages', l))
          /\ \A r \in ServerRecordIds :
                /\ (StatusOf(records, l, r) # "Validated"
                    /\ StatusOf(records', l, r) = "Validated")
                   => /\ records'[l][r].index
                            = Len(EntriesOf(operators, spackages, l))
                      /\ Len(EntriesOf(operators', spackages', l))
                            = Len(EntriesOf(operators, spackages, l)) + 1
                /\ (sret' = <<"Validation", ValidationError>>
                    /\ StatusOf(records, l, r) = "Pending"
                    /\ StatusOf(records', l, r) = "Rejected")
                   => /\ records'[l][r].reason = ValidationError
                      /\ EntriesOf(operators', spackages', l)
                            = EntriesOf(operators, spackages, l)]_vars


\* How many of the entries of log l are the record r.
TimesAppended(l, r) ==
    LET entries == EntriesOf(operators, spackages, l) IN
    Cardinality({i \in 1..Len(entries) : RecordId(entries[i]) = r})

\* C37: of the validate and reject calls made on one pending record, in any
\* order, the first takes effect (the record ends Validated or Rejected) and
\* every later one returns RecordNotPending and changes nothing; a settled
\* record stays as it is, the entries grow by at most the one record a
\* validation accepted, no record is appended twice, and no record is both
\* among the entries and Rejected.
C37_OneCallSettles ==
    [][\A l \in ServerLogs, r \in ServerRecordIds :
          /\ \A reason \in RejectReasons :
                /\ RejectPackageRecord(l, r, reason)
                   => Settles("reject", "Package", l, r)
                /\ RejectOperatorRecord(l, r, reason)
                   => Settles("reject", "Operator", l, r)
          /\ ValidatePackageRecord(l, r) => Settles("validate", "Package", l, r)
          /\ ValidateOperatorRecord(l, r) => Settles("validate", "Operator", l, r)
          /\ StatusOf(records, l, r) \in {"Validated", "Rejected"}
             => records'[l][r] = records[l][r]
          /\ GrowsByAtMostOne(EntriesOf(operators, spackages, l),
                              EntriesOf(operators', spackages', l))
          /\ TimesAppended(l, r)' > TimesAppended(l, r)
             => /\ StatusOf(records, l, r) = "Pending"
                /\ StatusOf(records', l, r) = "Validated"
                /\ sret' = <<"Ok">>
          /\ TimesAppended(l, r)' <= 1
          /\ StatusOf(records', l, r) = "Rejected" => TimesAppended(l, r)' = 0]_vars

\* A second call on a record that a validation already appended was
\* answered RecordNotPending.
C37_Witness ==
    \E r \in ServerRecordIds :
       /\ StatusOf(records, PublishName, r) = "Validated"
       /\ TimesAppended(PublishName, r) = 1
       /\ sret = <<"RecordNotPending", r>>

\* C38: on a pending package record set_content_present(d) takes d out of
\* the missing set and returns true exactly when that empties a set that
\* was not empty; it returns false when the set was already empty, and
\* false for a pending operator record, which it leaves alone.  The missing
\* set never grows, so true is returned at most once for a record, and
\* after the call is_content_missing(d) is false.
C38_LastContentOnce ==
    [][\A l \in ServerLogs, r \in ServerRecordIds :
          /\ \A d \in Digests :
                /\ SetContentPresent(l, r, d) /\ PendingOf("Package", l, r)
                   => LET missing == records[l][r].missing IN
                      /\ sret' = <<"Ok", missing # {} /\ missing \ {d} = {}>>
                      /\ records'[l][r].missing = missing \ {d}
                      /\ records'[l][r].st = "Pending"
                      /\ ContentMissing(records', l, r, d) = <<"Ok", FALSE>>
                /\ SetContentPresent(l, r, d) /\ PendingOf("Operator", l, r)
                   => sret' = <<"Ok", FALSE>> /\ StoreUnchanged
          /\ PendingOf("Package", l, r) /\ PendingOf("Package", l, r)'
             => records'[l][r].missing \subseteq records[l][r].missing]_vars

\* set_content_present has returned true: no pending package record has
\* missing contents left, so the answer is not one of is_content_missing.
C38_Witness ==
    /\ sret = <<"Ok", TRUE>>
    /\ \A r \in ServerRecordIds :
          r \in DOMAIN records[PublishName]
          => /\ PendingOf("Package", PublishName, r)
             /\ records[PublishName][r].missing = {}


\* The record is Validated in log l and in the checkpoint at index
\* checkpoint_index or an earlier one.
CoveredBy(l, r, checkpoint_index) ==
    /\ StatusOf(records, l, r) = "Validated"
    /\ IsSome(records[l][r].checkpoint_index)
    /\ Unwrap(records[l][r].checkpoint_index) <= checkpoint_index

\* The positions (from 1) of the entries of log l that the checkpoint
\* covers.
CoveredPositions(entries, l, checkpoint_index) ==
    {i \in 1..Len(entries) : CoveredBy(l, RecordId(entries[i]), checkpoint_index)}

\* What the claim expects of a get_*_records call over the logs of its
\* kind whose `since` is absent or a Validated record of the log.
ReturnsRun(logs, l, c, since, limit) ==
    IF l \notin DOMAIN logs THEN sret' = <<"LogNotFound", l>>
    ELSE IF IndexOfCheckpoint(c) = Nil THEN sret' = <<"CheckpointNotFound", c>>
    ELSE LET entries == logs[l].entries
             start == IF IsSome(since) THEN records[l][Unwrap(since)].index + 1 ELSE 0
             covered == CoveredPositions(entries, l, Unwrap(IndexOfCheckpoint(c)))
         IN  /\ sret'[1] = "Ok"
             /\ Len(sret'[2]) <= limit
             /\ start + Len(sret'[2]) <= Len(entries)
             /\ sret'[2] = SubSeq(entries, start + 1, start + Len(sret'[2]))
             /\ \A i \in 1..Len(sret'[2]) : start + i \in covered
             /\ (\A i \in covered : i <= start) => sret'[2] = <<>>

\* C39: for a known log and a known checkpoint get_operator_records and
\* get_package_records return a contiguous run of the entries that starts
\* right after `since` (at the first entry without it), holds at most limit
\* records and only records the checkpoint covers; with `since` at or beyond
\* the last covered record the result is the empty list; an unknown
\* checkpoint gives CheckpointNotFound, an unknown log LogNotFound.
C39_RecordsAfterSince ==
    [][\A l \in ServerLogs, c \in AskedCheckpoints, since \in SinceValues, limit \in 0..MaxLimit :
          (IsSome(since) => StatusOf(records, l, Unwrap(since)) = "Validated")
          => /\ GetOperatorRecords(l, c, since, limit)
                => ReturnsRun(operators, l, c, since, limit)
             /\ GetPackageRecords(l, c, since, limit)
                => ReturnsRun(spackages, l, c, since, limit)]_vars


\* The status get_operator_record (for the operator log) or
\* get_package_record (for a package log) reports for the record of a leaf;
\* "None" when the call fails.
Reported(leaf) ==
    LET res == IF leaf.log_id = OperatorLog
               THEN GetRecord("Operator", operators, leaf.log_id, leaf.record_id)
               ELSE GetRecord("Package", spackages, leaf.log_id, leaf.record_id)
    IN  IF res[1] = "Ok" THEN res[2].status[1] ELSE "None"

\* The step is a call of store_checkpoint.
StoresCheckpoint ==
    \E c \in {CheckpointIds[i] : i \in 1..MaxCheckpoints}, participants \in SUBSET LogLeaves :
       ServerStoreCheckpoint(c, participants)

\* C40: a record is reported Published from the store_checkpoint that lists
\* it among its participants on, and by no other call: store_checkpoint
\* marks exactly its participants and every other call leaves Published
\* records Published and the others not Published.  A record that is
\* Validated and in no checkpoint is reported Validated, a Pending one
\* Pending and a Rejected one Rejected.  get_latest_checkpoint returns the
\* checkpoint stored last.
C40_PublishedIffListed ==
    [][/\ \A c \in {CheckpointIds[i] : i \in 1..MaxCheckpoints}, participants \in SUBSET LogLeaves :
             ServerStoreCheckpoint(c, participants)
             => /\ checkpoints' = Append(checkpoints, c)
                /\ \A leaf \in LogLeaves :
                      Reported(leaf)' = "Published"
                      <=> (Reported(leaf) = "Published" \/ leaf \in participants)
       /\ ~StoresCheckpoint
          => \A leaf \in LogLeaves :
                Reported(leaf)' = "Published" <=> Reported(leaf) = "Published"
       /\ \A leaf \in LogLeaves :
             LET st == StatusOf(records', leaf.log_id, leaf.record_id) IN
             /\ Reported(leaf)' = "Validated"
                <=> /\ st = "Validated"
                    /\ records'[leaf.log_id][leaf.record_id].checkpoint_index = Nil
             /\ Reported(leaf)' = "Pending" <=> st = "Pending"
             /\ Reported(leaf)' = "Rejected" <=> st = "Rejected"
       /\ LastCheckpoint(checkpoints') =
             IF \E c \in {CheckpointIds[i] : i \in 1..MaxCheckpoints} :
                   \E participants \in SUBSET LogLeaves :
                      ServerStoreCheckpoint(c, participants)
             THEN <<"Ok", CHOOSE c \in {CheckpointIds[i] : i \in 1..MaxCheckpoints} :
                             \E participants \in SUBSET LogLeaves :
                                ServerStoreCheckpoint(c, participants)>>
             ELSE LastCheckpoint(checkpoints)]_vars

\* ------------------------------------- the loop over the records of a log

\* The records of one log in one fetch response.
MaxRetransmit == 3

\* The logs whose records the loop is run over: a package log of the
\* default registry and the operator log of the other.
ApplyLogs == {<<None, "a">>, <<"d1", OperatorLog>>}

\* The info of a log whose first k records were applied (none for k = 0).
StartInfo(d, l, k) ==
    IF k = 0
    THEN [state |-> EmptyState, head_registry_index |-> Nil, head_fetch_token |-> Nil]
    ELSE LET r == LogRecords(d, l)[k] IN
         [state |-> [head |-> Some(RecordId(r))],
          head_registry_index |-> Some(r.registry_index),
          head_fetch_token |-> Some(r.fetch_token)]

\* What the server may send for a log: any of its records, in any order and
\* any number of times.
Retransmissions(d, l) ==
    UNION {[1..n -> {LogRecords(d, l)[i] : i \in 1..Len(LogRecords(d, l))}] :
             n \in 0..MaxRetransmit}

ApplyInputs ==
    UNION {{[info |-> StartInfo(x[1], x[2], k), recs |-> recs] :
              k \in 0..Len(LogRecords(x[1], x[2])),
              recs \in Retransmissions(x[1], x[2])} : x \in ApplyLogs}

outside_applying == <<syncing, resolving, publishing, serving, calling>>

ApplyInit ==
    /\ NotSyncing
    /\ NotResolving
    /\ NotInPublish
    /\ NotServing
    /\ NotCalling
    /\ ainput \in ApplyInputs
    /\ ainfo = ainput.info
    /\ arecs = ainput.recs
    /\ ares = "running"
    /\ atrace = <<>>

\* One turn of `for record in response.operator` / `for record in records`:
\* a record that passes the gate is validated, and the head index and the
\* fetch token move to it; the first failure ends the loop with the error.
ApplyRecord ==
    /\ ares = "running"
    /\ arecs # <<>>
    /\ LET r == Head(arecs) IN
       IF Gate(ainfo.head_registry_index, r.registry_index)
       THEN IF ValidateOk(ainfo.state, r)
            THEN /\ ainfo' = [ainfo EXCEPT
                                !.state = Validated(ainfo.state, r),
                                !.head_registry_index = Some(r.registry_index),
                                !.head_fetch_token = Some(r.fetch_token)]
                 /\ ares' = ares
                 /\ atrace' = Append(atrace,
                                [record |-> r, head |-> ainfo.head_registry_index,
                                 validate |-> TRUE, ok |-> TRUE, info |-> ainfo'])
            ELSE /\ ainfo' = ainfo
                 /\ ares' = "ValidationFailed"
                 /\ atrace' = Append(atrace,
                                [record |-> r, head |-> ainfo.head_registry_index,
                                 validate |-> TRUE, ok |-> FALSE, info |-> ainfo])
       ELSE /\ ainfo' = ainfo
            /\ ares' = ares
            /\ atrace' = Append(atrace,
                           [record |-> r, head |-> ainfo.head_registry_index,
                            validate |-> FALSE, ok |-> TRUE, info |-> ainfo])
    /\ arecs' = Tail(arecs)
    /\ UNCHANGED ainput
    /\ UNCHANGED outside_applying

\* The loop has visited every record.
LoopDone ==
    /\ ares = "running"
    /\ arecs = <<>>
    /\ ares' = "done"
    /\ UNCHANGED <<ainput, ainfo, arecs, atrace>>
    /\ UNCHANGED outside_applying

ApplyNext ==
    \/ ApplyRecord
    \/ LoopDone

ApplySpec == ApplyInit /\ [][ApplyNext]_vars

\* The registry indices of the records the loop applied, in order.
IsApplied(t) == t.validate /\ t.ok
AppliedTrace == SelectSeq(atrace, IsApplied)

\* The info before the i-th visit.
InfoBefore(i) == IF i = 1 THEN ainput.info ELSE atrace[i - 1].info

MaxUpdates == 2

\* The methods that start a synchronization.
Callers == {"update", "upsert", "publish_with_info", "fetch_package"}

\* The namespace-domain a call site passes to latest_checkpoint and as the
\* first argument of update_checkpoint: None in update, upsert and
\* publish_with_info, namespace_domain in fetch_package.
SyncDomain(caller, d) == IF caller = "fetch_package" THEN d ELSE None

\* What update_checkpoint(nd, ..) turns to, in order, each with the
\* namespace-domain it passes; load_checkpoint and prove_log_consistency
\* take none.
SyncSteps(nd) ==
    <<<<"load_operator", nd>>,
      <<"fetch_logs", nd>>,
      <<"prove_inclusion", nd>>,
      <<"load_checkpoint", None>>,
      <<"prove_log_consistency", None>>,
      <<"store_operator", nd>>,
      <<"store_package", nd>>,
      <<"store_checkpoint", nd>>>>

outside_calling == <<syncing, resolving, publishing, serving, applying>>

UpdateInit ==
    /\ NotSyncing
    /\ NotResolving
    /\ NotInPublish
    /\ NotServing
    /\ NotApplying
    /\ NotCalling

\* A caller is called with the namespace-domain d for the packages ns.
Called(caller, d, ns) ==
    /\ upc = "idle"
    /\ ucalls < MaxUpdates
    /\ ucalls' = ucalls + 1
    /\ ucaller' = caller
    /\ udomain' = d
    /\ unames' = ns
    /\ ustep' = 0
    /\ uresult' = <<"None">>
    /\ uses' = <<>>
    /\ UNCHANGED outside_calling

\* update(namespace_domain): load_packages(namespace_domain).
UpdateCalled(d) ==
    /\ Called("update", d, PackageNames)
    /\ upc' = "load_packages"

\* upsert(namespace_domain, packages): load_package for every name.
UpsertCalled(d, ns) ==
    /\ Called("upsert", d, ns)
    /\ upc' = "load_package"

\* publish_with_info(signing_key, info, namespace_domain) with entries.
PublishWithInfoCalled(d) ==
    /\ Called("publish_with_info", d, {PublishName})
    /\ upc' = "load_package"

\* fetch_package(name), with the namespace-domain the resolver returned.
FetchPackageCalled(d, n) ==
    /\ Called("fetch_package", d, {n})
    /\ upc' = "load_package"

\* The caller returns res.
UReturn(res) ==
    /\ upc' = "idle"
    /\ ustep' = 0
    /\ uresult' = res

\* The load from the storage scope of namespace_domain returned.  update and
\* upsert go on to the latest checkpoint; publish_with_info does when the
\* intent needs the head (go), fetch_package when the package is not stored.
PackagesLoaded(ok, go) ==
    /\ upc \in {"load_packages", "load_package"}
    /\ uses' = Append(uses, <<upc, udomain>>)
    /\ IF ~ok THEN UReturn(<<"Other", upc>>)
       ELSE IF ucaller \in {"publish_with_info", "fetch_package"} /\ ~go
       THEN UReturn(<<"Ok">>)
       ELSE upc' = "latest_checkpoint" /\ UNCHANGED <<ustep, uresult>>
    /\ UNCHANGED <<ucaller, udomain, unames, ucalls>>
    /\ UNCHANGED outside_calling

\* latest_checkpoint returned: update_checkpoint is called with it.
CheckpointFetched(ok) ==
    /\ upc = "latest_checkpoint"
    /\ uses' = Append(uses, <<"latest_checkpoint", SyncDomain(ucaller, udomain)>>)
    /\ IF ok
       THEN upc' = "update_checkpoint" /\ ustep' = 1 /\ UNCHANGED uresult
       ELSE UReturn(<<"Api">>)
    /\ UNCHANGED <<ucaller, udomain, unames, ucalls>>
    /\ UNCHANGED outside_calling

\* One await of update_checkpoint is over: it failed, or the call goes on to
\* the next one ("next"), to the one after when the stored checkpoint needs
\* no consistency proof ("skip"), or returns: after load_operator when step A
\* left no package, and after store_checkpoint.
SyncStep(out) ==
    /\ upc = "update_checkpoint"
    /\ LET steps == SyncSteps(SyncDomain(ucaller, udomain)) IN
       /\ uses' = Append(uses, steps[ustep])
       /\ CASE out = "fail" -> UReturn(<<"Other", steps[ustep][1]>>)
            [] out = "return" ->
                 /\ ustep \in {1, Len(steps)}
                 /\ UReturn(<<"Ok">>)
            [] out = "skip" ->
                 /\ steps[ustep][1] = "load_checkpoint"
                 /\ ustep' = ustep + 2
                 /\ UNCHANGED <<upc, uresult>>
            [] OTHER ->
                 /\ ustep < Len(steps)
                 /\ ustep' = ustep + 1
                 /\ UNCHANGED <<upc, uresult>>
    /\ UNCHANGED <<ucaller, udomain, unames, ucalls>>
    /\ UNCHANGED outside_calling

UpdateNext ==
    \/ \E d \in Domain : UpdateCalled(d)
    \/ \E d \in Domain, ns \in SUBSET PackageNames : UpsertCalled(d, ns)
    \/ \E d \in Domain : PublishWithInfoCalled(d)
    \/ \E d \in Domain, n \in PackageNames : FetchPackageCalled(d, n)
    \/ \E ok \in BOOLEAN, go \in BOOLEAN : PackagesLoaded(ok, go)
    \/ \E ok \in BOOLEAN : CheckpointFetched(ok)
    \/ \E out \in {"next", "skip", "fail", "return"} : SyncStep(out)

UpdateSpec == UpdateInit /\ [][UpdateNext]_vars

\* The operations that are given a namespace-domain.
ScopedOps ==
    {"load_packages", "load_package", "latest_checkpoint", "load_operator",
     "fetch_logs", "prove_inclusion", "store_operator", "store_package",
     "store_checkpoint"}

\* C32: a call of update, upsert or publish_with_info for the
\* namespace-domain D turns to D only: the packages come from the storage
\* scope D, the latest checkpoint, the records and the inclusion proof from
\* the registry of D, and what is stored is stored under D.
C32_DomainThroughout ==
    ucaller \in {"update", "upsert", "publish_with_info"}
    => \A i \in 1..Len(uses) :
          uses[i][1] \in ScopedOps => uses[i][2] = udomain

====
